---- MODULE Spec2Model ----
(***************************************************************************)
(* Model of the nopal detector: the reference bank, the keypoint pipeline  *)
(* (region proposal, shape pre-filter, matching, pose validation), the     *)
(* colour pipeline, the mode orchestrator and the read-detect-emit loop of *)
(* NopalDetector.detect_from_source.                                       *)
(*                                                                         *)
(* Images are abstracted to what the OpenCV calls report about them: a     *)
(* frame carries its candidate regions, the good-match count / fit /       *)
(* projected quadrilateral of every (candidate, reference) pair, and its   *)
(* colour contours.  Pixel contents are a base identity plus the list of   *)
(* drawing operations applied to it.                                       *)
(***************************************************************************)
EXTENDS Integers, Sequences, FiniteSets, TLC

VARIABLES
    config,           \* ApplicationConfig.orb / .color_detection (detector.config)
    color_config,     \* ColorDetectionService.config (a copy made in __init__)
    reference_data,   \* OpenCVService._reference_data
    reference_bank,   \* OpenCVService._reference_bank
    observers,        \* OutputManager.observers
    pc,               \* position inside detect_from_source / the driver
    args,             \* arguments of the current invocation
    cap,              \* the opened frame source of _process_source
    frame,            \* the frame being processed
    result,           \* what _detect_with_mode returned for it
    metadata,         \* the metadata dict of the current frame
    frame_count,      \* _process_stream's frame_count
    obs_i,            \* notify_result's position in the observer list
    invocations,      \* probe: number of detect_from_source calls so far
    log,              \* probe: reads, detections and deliveries, in order
    ret               \* return value of the invocation

vars == <<config, color_config, reference_data, reference_bank, observers, pc,
          args, cap, frame, result, metadata, frame_count, obs_i, invocations,
          log, ret>>

(***************************************************************************)
(* Bounds of the model.                                                    *)
(***************************************************************************)
MaxCands == 2        \* candidate regions per frame
MaxContours == 2     \* colour contours per frame
MaxFrames == 2       \* frames a stream delivers before end-of-sequence
MaxLoads == 2        \* reference load operations in a row
MaxInvocations == 1  \* detect_from_source calls on one detector

(***************************************************************************)
(* Program constants.                                                      *)
(***************************************************************************)
MinKeypoints == 8          \* len(kp) < 8
RoiFloorMatches == 12      \* max(12, min_matches, ...)
PeriDivisor == 50          \* int(0.02 * peri)
HuThreshold == 60          \* d > 6.0, in tenths
IouNum == 3                \* iou >= 0.3 as IouDen * inter >= IouNum * union
IouDen == 10
CanvasPad == 10            \* y + h + 10, x + w + 10
DefaultMinMatches == 18    \* ORBConfig.min_matches
CliMinMatches == 4         \* validate_args: args.min_matches < 4

\* Python's None, for values that are records when present.
None == [none |-> TRUE]
\* A Hu signature that is None (signatures are log-magnitudes in tenths, >= 0).
NoHu == -1

Max(a, b) == IF a >= b THEN a ELSE b
Min(a, b) == IF a <= b THEN a ELSE b

(***************************************************************************)
(* Keypoint pipeline: OpenCVService.                                       *)
(*   A reference is [name, kp, des, hu]: keypoint count, descriptors       *)
(*   present, Hu signature.  A pair observation is [gm, fit, quad]: the    *)
(*   number of ratio-test matches, whether findHomography returned a       *)
(*   matrix, and the projected corners (an axis-aligned quadrilateral      *)
(*   [x0, y0, x1, y1] in the coordinates of the matched image).            *)
(***************************************************************************)

\* Pixels an axis-aligned rectangle a0..a1 x b0..b1 (inclusive) covers inside
\* the canvas 0..W-1 x 0..H-1.
ClipArea(a0, b0, a1, b1, W, H) ==
    LET cw == Min(a1, W - 1) - Max(a0, 0) + 1
        ch == Min(b1, H - 1) - Max(b0, 0) + 1
    IN IF cw <= 0 \/ ch <= 0 THEN 0 ELSE cw * ch

\* _iou_poly_rect_ok(poly, rect, threshold=0.3): both shapes are rasterised on
\* a canvas of (y+h+10) x (x+w+10) pixels and compared by pixel counts.
IouPolyRectOk(poly, rect) ==
    LET H == Max(rect.y + rect.h + CanvasPad, 1)
        W == Max(rect.x + rect.w + CanvasPad, 1)
        a1 == ClipArea(poly.x0, poly.y0, poly.x1, poly.y1, W, H)
        a2 == ClipArea(rect.x, rect.y, rect.x + rect.w, rect.y + rect.h, W, H)
        inter == ClipArea(Max(poly.x0, rect.x), Max(poly.y0, rect.y),
                          Min(poly.x1, rect.x + rect.w),
                          Min(poly.y1, rect.y + rect.h), W, H)
        union == a1 + a2 - inter
    IN IF union = 0 THEN FALSE ELSE IouDen * inter >= IouNum * union

\* roi_box = None on the whole frame.
NoBox == [roi |-> FALSE]

\* Mutation: the region threshold without the floor of 12.
MinMatchesNoFloor(cfg, roi_box) ==
    IF roi_box = NoBox
    THEN cfg.min_matches
    ELSE Max(cfg.min_matches, (2 * (roi_box.w + roi_box.h)) \div PeriDivisor)

\* The adaptive threshold of _try_match_and_draw.
MinMatchesFor(cfg, roi_box) ==
    IF roi_box = NoBox
    THEN cfg.min_matches
    ELSE LET peri == 2 * (roi_box.w + roi_box.h)
         IN Max(RoiFloorMatches, Max(cfg.min_matches, peri \div PeriDivisor))

\* Mutation: one match above the threshold is still refused.
EnoughMatchesPlusTwo(gm, min_matches) == ~(gm < min_matches + 2)

\* len(good) < min_matches is the rejection; its negation is the acceptance.
EnoughMatches(gm, min_matches) == ~(gm < min_matches)

\* _try_match_and_draw: returns (len(good), ok, H, mask) and draws on
\* output_frame (out) when the pair is accepted.
TryMatchAndDraw(ref, pair, out, roi_box, cfg, ci) ==
    LET gm == pair.gm
        min_matches == MinMatchesFor(cfg, roi_box)
        fail == [gm |-> gm, ok |-> FALSE, H |-> None, mask |-> None, out |-> out]
        proj == IF roi_box = NoBox THEN pair.quad
                ELSE [x0 |-> pair.quad.x0 + roi_box.x, y0 |-> pair.quad.y0 + roi_box.y,
                      x1 |-> pair.quad.x1 + roi_box.x, y1 |-> pair.quad.y1 + roi_box.y]
    IN IF ~EnoughMatches(gm, min_matches) THEN fail
       ELSE IF ~pair.fit THEN fail
       ELSE IF roi_box # NoBox /\ ~IouPolyRectOk(proj, roi_box) THEN fail
       ELSE [gm |-> gm, ok |-> TRUE,
             H |-> [ref |-> ref.name, cand |-> ci],
             mask |-> [quad |-> proj],
             out |-> Append(out, [op |-> "overlay", quad |-> proj])]

\* Hu distance of the shape pre-filter: norm of the difference in log space.
HuDistance(a, b) == IF a >= b THEN a - b ELSE b - a

\* The pre-filter skips a pair only when both signatures exist and d > 6.0.
ShapeRejected(ref, hu_roi) ==
    ref.hu # NoHu /\ hu_roi # NoHu /\ HuDistance(ref.hu, hu_roi) > HuThreshold

\* "des is None or not kp or len(kp) < 8" negated.
EnoughKeypoints(kp, des) == des /\ kp >= MinKeypoints

\* One iteration of the whole-frame loop (detection.py 246-249): r is what
\* _try_match_and_draw returned for the reference.
GlobalStep(acc, r) ==
    [matches_found |-> Max(acc.matches_found, r.gm),
     has_detection |-> r.ok, homography |-> r.H, mask |-> r.mask, out |-> r.out]

\* Whole-frame loop over the bank, from reference i on; it breaks at the
\* first accepted reference.
RECURSIVE GlobalLoop(_, _, _, _, _)
GlobalLoop(bank, i, fr, cfg, acc) ==
    IF i > Len(bank) \/ acc.has_detection THEN acc
    ELSE GlobalLoop(bank, i + 1, fr, cfg,
             GlobalStep(acc, TryMatchAndDraw(bank[i], fr.whole.m[bank[i].name],
                                             acc.out, NoBox, cfg, 0)))

\* Mutation: the best pair is updated without its mask.
RegionStepDropsMask(acc, r) ==
    IF r.ok /\ r.gm > acc.gm
    THEN [gm |-> r.gm, H |-> r.H, mask |-> acc.mask, out |-> r.out]
    ELSE [acc EXCEPT !.out = r.out]

\* "if ok and gm > best['gm']: best.update(...)" (detection.py 289-290); the
\* drawing of an accepted pair stays on the output frame either way.
RegionStep(acc, r) ==
    IF r.ok /\ r.gm > acc.gm
    THEN [gm |-> r.gm, H |-> r.H, mask |-> r.mask, out |-> r.out]
    ELSE [acc EXCEPT !.out = r.out]

\* Inner loop of the region path over the bank for candidate ci.
RECURSIVE RefLoop(_, _, _, _, _, _)
RefLoop(bank, i, fr, ci, cfg, acc) ==
    IF i > Len(bank) THEN acc
    ELSE IF ShapeRejected(bank[i], fr.cands[ci].hu)
    THEN RefLoop(bank, i + 1, fr, ci, cfg, acc)
    ELSE RefLoop(bank, i + 1, fr, ci, cfg,
             RegionStep(acc, TryMatchAndDraw(bank[i], fr.cands[ci].m[bank[i].name],
                                             acc.out, fr.cands[ci].box, cfg, ci)))

\* Outer loop of the region path over the candidates.
RECURSIVE CandLoop(_, _, _, _, _)
CandLoop(bank, ci, fr, cfg, acc) ==
    IF ci > Len(fr.cands) THEN acc
    ELSE IF ~EnoughKeypoints(fr.cands[ci].kp, fr.cands[ci].des)
         THEN CandLoop(bank, ci + 1, fr, cfg, acc)
         ELSE CandLoop(bank, ci + 1, fr, cfg, RefLoop(bank, 1, fr, ci, cfg, acc))

\* The frame copy a detector draws on: output_frame = frame.copy().
CopyOf(fr) == [id |-> fr.id, drawn |-> fr.drawn]

\* Mutation: the detector draws on the caller's frame instead of on a copy.
InputAfterAliased(fr, out) == [fr EXCEPT !.drawn = out.drawn]

\* The caller's frame after a detector drew on its output frame: the output
\* is a copy, so the drawing does not reach the input.
InputAfter(fr, out) == fr

\* A DetectionResult, with the caller's frame as the call left it.
DetectionResult(fr, drawn, mask, matches_found, has_detection, homography) ==
    [exc |-> FALSE,
     frame_with_overlay |-> [id |-> fr.id, drawn |-> drawn],
     mask |-> mask, matches_found |-> matches_found,
     has_detection |-> has_detection, homography |-> homography,
     input_after |-> InputAfter(fr, [id |-> fr.id, drawn |-> drawn])]

\* detection.py 241-243: too few keypoints on the whole frame.
FewKeypointsResult(fr, out) ==
    DetectionResult(fr, Append(out, [op |-> "few_keypoints"]), None, 0, FALSE, None)

\* detection.py 253-260: the result of the whole-frame loop.
GlobalResult(fr, a) ==
    DetectionResult(fr,
        Append(a.out, IF a.has_detection
                      THEN [op |-> "matches_info", n |-> a.matches_found]
                      ELSE [op |-> "insufficient"]),
        a.mask, a.matches_found, a.has_detection, a.homography)

\* Mutation: the best pair of the previous keypoint call is kept on the
\* service and reused when the current frame has none.
RegionResultKeepsBest(fr, best) ==
    IF best.H # None
    THEN DetectionResult(fr, Append(best.out, [op |-> "matches_info", n |-> best.gm]),
                         best.mask, best.gm, TRUE, best.H)
    ELSE IF /\ log # <<>> /\ log[Len(log)].kind = "orb"
            /\ ~log[Len(log)].result.exc /\ log[Len(log)].result.has_detection
    THEN DetectionResult(fr, Append(best.out, [op |-> "matches_info",
                                               n |-> log[Len(log)].result.matches_found]),
                         log[Len(log)].result.mask, log[Len(log)].result.matches_found,
                         TRUE, log[Len(log)].result.homography)
    ELSE DetectionResult(fr, Append(best.out, [op |-> "insufficient"]),
                         None, 0, FALSE, None)

\* detection.py 292-303: the result of the region path.
RegionResult(fr, best) ==
    IF best.H # None
    THEN DetectionResult(fr, Append(best.out, [op |-> "matches_info", n |-> best.gm]),
                         best.mask, best.gm, TRUE, best.H)
    ELSE DetectionResult(fr, Append(best.out, [op |-> "insufficient"]),
                         None, 0, FALSE, None)

\* Mutation: the whole frame is also scanned when no candidate region has
\* enough keypoints.
NoCandidatesUsable(fr) ==
    \A ci \in DOMAIN fr.cands : ~EnoughKeypoints(fr.cands[ci].kp, fr.cands[ci].des)

\* detection.py 239: "if not candidates", on the list _find_candidates gave.
NoCandidates(fr) == Len(fr.cands) = 0

\* OpenCVService.detect_in_frame.  exc: the call raised.
DetectInFrame(fr, bank, cfg) ==
    IF Len(bank) = 0 \/ fr.malformed
    THEN [exc |-> TRUE]
    ELSE IF NoCandidates(fr)
    THEN IF ~EnoughKeypoints(fr.whole.kp, fr.whole.des)
         THEN FewKeypointsResult(fr, CopyOf(fr).drawn)
         ELSE GlobalResult(fr,
                  GlobalLoop(bank, 1, fr, cfg,
                      [matches_found |-> 0, has_detection |-> FALSE,
                       homography |-> None, mask |-> None, out |-> CopyOf(fr).drawn]))
    ELSE RegionResult(fr,
             CandLoop(bank, 1, fr, cfg,
                 [gm |-> 0, H |-> None, mask |-> None, out |-> CopyOf(fr).drawn]))

(***************************************************************************)
(* Colour pipeline: ColorDetectionService.                                 *)
(*   A contour observation is [color, area, w, h, hull]: the configured    *)
(*   range that produced it, contourArea, boundingRect and the area of its *)
(*   convex hull.  Ratios are kept in hundredths.                          *)
(***************************************************************************)

\* Mutation: the solidity gate is dropped.
ContourAcceptedAnySolidity(c, ccfg) ==
    /\ ~(c.area < ccfg.min_area \/ c.area > ccfg.max_area)
    /\ ccfg.aspect_min * Max(1, c.h) <= 100 * c.w
    /\ 100 * c.w <= ccfg.aspect_max * Max(1, c.h)

\* The three gates of _detect_color (area, aspect ratio, solidity).
ContourAccepted(c, ccfg) ==
    /\ ~(c.area < ccfg.min_area \/ c.area > ccfg.max_area)
    /\ ccfg.aspect_min * Max(1, c.h) <= 100 * c.w
    /\ 100 * c.w <= ccfg.aspect_max * Max(1, c.h)
    /\ ~(100 * c.area < ccfg.solidity_min * Max(1, c.hull))

\* _detect_color for one configured range: the accepted contours of that
\* colour, in contour order, as indices into the frame's contour list.
RECURSIVE DetectColor(_, _, _, _)
DetectColor(fr, color_name, ccfg, k) ==
    IF k > Len(fr.contours) THEN <<>>
    ELSE IF fr.contours[k].color = color_name /\ ContourAccepted(fr.contours[k], ccfg)
    THEN <<k>> \o DetectColor(fr, color_name, ccfg, k + 1)
    ELSE DetectColor(fr, color_name, ccfg, k + 1)

\* Mutation: every configured colour is reported as found.
ColorStepAlwaysFound(acc, color_name, det) ==
    [detections |->
         acc.detections \o
         [n \in 1..Len(det) |-> [color |-> color_name, contour |-> det[n]]],
     colors_found |-> Append(acc.colors_found, color_name),
     mask |-> acc.mask \cup {det[n] : n \in 1..Len(det)},
     out |-> acc.out \o [n \in 1..Len(det) |-> [op |-> "color", contour |-> det[n]]]]

\* color_detection.py 100-108: what one colour adds to the accumulators
\* (detections, colours found, global mask, drawings on the output frame).
ColorStep(acc, color_name, det) ==
    [detections |->
         acc.detections \o
         [n \in 1..Len(det) |-> [color |-> color_name, contour |-> det[n]]],
     colors_found |->
         IF Len(det) > 0 THEN Append(acc.colors_found, color_name)
         ELSE acc.colors_found,
     mask |-> acc.mask \cup {det[n] : n \in 1..Len(det)},
     out |-> acc.out \o [n \in 1..Len(det) |-> [op |-> "color", contour |-> det[n]]]]

\* The loop over the configured colour ranges, from range j on.
RECURSIVE ColorLoop(_, _, _, _)
ColorLoop(fr, ccfg, j, acc) ==
    IF j > Len(ccfg.hsv_ranges) THEN acc
    ELSE ColorLoop(fr, ccfg, j + 1,
             ColorStep(acc, ccfg.hsv_ranges[j],
                       DetectColor(fr, ccfg.hsv_ranges[j], ccfg, 1)))

\* Mutation: the detector draws on the caller's frame.
ColorDetectionResultAliased(fr, a) ==
    [exc |-> FALSE,
     frame_with_overlay |-> [id |-> fr.id, drawn |-> a.out],
     mask |-> IF a.mask = {} THEN None ELSE [contours |-> a.mask],
     detections |-> a.detections,
     total_detections |-> Len(a.detections),
     colors_found |-> a.colors_found,
     input_after |-> [fr EXCEPT !.drawn = a.out]]

\* color_detection.py 110-126: the ColorDetectionResult.
ColorDetectionResult(fr, a) ==
    [exc |-> FALSE,
     frame_with_overlay |-> [id |-> fr.id, drawn |-> a.out],
     mask |-> IF a.mask = {} THEN None ELSE [contours |-> a.mask],
     detections |-> a.detections,
     total_detections |-> Len(a.detections),
     colors_found |-> a.colors_found,
     input_after |-> InputAfter(fr, [id |-> fr.id, drawn |-> a.out])]

\* ColorDetectionService.detect_in_frame.
ColorDetectInFrame(fr, ccfg) ==
    IF fr.malformed
    THEN [exc |-> TRUE]
    ELSE ColorDetectionResult(fr,
             ColorLoop(fr, ccfg, 1,
                 [detections |-> <<>>, colors_found |-> <<>>, mask |-> {},
                  out |-> CopyOf(fr).drawn]))

(***************************************************************************)
(* Mode orchestrator: NopalDetector._detect_with_mode.                     *)
(*   Returns the tuple (frame, mask, has_detection, count) as a record,    *)
(*   with the number of calls made to each detector.                       *)
(***************************************************************************)
Raised(orb, color) == [exc |-> TRUE, orb_calls |-> orb, color_calls |-> color]

Returned(f, m, hit, n, orb, color) ==
    [exc |-> FALSE, frame |-> f, mask |-> m, has_detection |-> hit, count |-> n,
     orb_calls |-> orb, color_calls |-> color]

\* detector.py 325-326 (and 357-358): the keypoint result, verbatim.
OrbTuple(r) ==
    IF r.exc THEN Raised(1, 0)
    ELSE Returned(r.frame_with_overlay, r.mask, r.has_detection, r.matches_found, 1, 0)

OrbOnly(fr, bank, cfg) == OrbTuple(DetectInFrame(fr, bank, cfg))

\* Mutation: a single colour detection does not count as a hit.
ColorTupleNeedsTwo(r) ==
    IF r.exc THEN Raised(0, 1)
    ELSE Returned(r.frame_with_overlay, r.mask, r.total_detections > 1,
                  r.total_detections, 0, 1)

\* detector.py 330-331: the colour result, hit iff the total is positive.
ColorTuple(r) ==
    IF r.exc THEN Raised(0, 1)
    ELSE Returned(r.frame_with_overlay, r.mask, r.total_detections > 0,
                  r.total_detections, 0, 1)

ColorOnly(fr, ccfg) == ColorTuple(ColorDetectInFrame(fr, ccfg))

\* detector.py 346-352: the outcome once the colour fallback has run.
AutoAfterColor(orb_result, color_result) ==
    IF color_result.exc THEN Raised(1, 1)
    ELSE IF color_result.total_detections > 0
    THEN Returned(color_result.frame_with_overlay, color_result.mask, TRUE,
                  color_result.total_detections, 1, 1)
    ELSE Returned(orb_result.frame_with_overlay, orb_result.mask, FALSE,
                  orb_result.matches_found, 1, 1)

\* Mutation: the test on the keypoint result is inverted.
AutoInverted(orb_result, ccfg) ==
    IF orb_result.exc THEN Raised(1, 0)
    ELSE IF ~orb_result.has_detection
    THEN Returned(orb_result.frame_with_overlay, orb_result.mask, TRUE,
                  orb_result.matches_found, 1, 0)
    ELSE AutoAfterColor(orb_result, ColorDetectInFrame(orb_result.input_after, ccfg))

\* detector.py 337-344: the keypoint result decides whether colour runs.
AutoAfterOrb(orb_result, ccfg) ==
    IF orb_result.exc THEN Raised(1, 0)
    ELSE IF orb_result.has_detection
    THEN Returned(orb_result.frame_with_overlay, orb_result.mask, TRUE,
                  orb_result.matches_found, 1, 0)
    ELSE AutoAfterColor(orb_result, ColorDetectInFrame(orb_result.input_after, ccfg))

Auto(fr, bank, cfg, ccfg) == AutoAfterOrb(DetectInFrame(fr, bank, cfg), ccfg)

DetectWithMode(fr, detector_mode, bank, cfg, ccfg) ==
    IF detector_mode = "orb" THEN OrbOnly(fr, bank, cfg)
    ELSE IF detector_mode = "color" THEN ColorOnly(fr, ccfg)
    ELSE IF detector_mode = "auto" THEN Auto(fr, bank, cfg, ccfg)
    ELSE OrbOnly(fr, bank, cfg)

(***************************************************************************)
(* Inputs: reference images, frames, configurations.                       *)
(***************************************************************************)
Modes == {"orb", "color", "auto", "other"}

\* ORBConfig() and the colour configuration NopalDetector.__init__ copies.
DefaultConfig == [min_matches |-> DefaultMinMatches]

DefaultColorConfig ==
    [hsv_ranges |-> <<"verde", "azul">>, min_area |-> 800, max_area |-> 1000000,
     aspect_min |-> 50, aspect_max |-> 220, solidity_min |-> 85]

\* Two loaded references: one with a Hu signature, one without.
RefA == [name |-> "A", kp |-> 8, des |-> TRUE, hu |-> 0]
RefB == [name |-> "B", kp |-> 40, des |-> TRUE, hu |-> NoHu]
RefNames == {"A", "B"}

\* Sequences over S of length at most n.
SeqUpTo(S, n) == UNION {[1..k -> S] : k \in 0..n}

Box40 == [x |-> 0, y |-> 0, w |-> 40, h |-> 40]
QuadOn(box) == [x0 |-> 0, y0 |-> 0, x1 |-> box.w, y1 |-> box.h]
QuadCorner(box) == [x0 |-> 0, y0 |-> 0, x1 |-> box.w \div 4, y1 |-> box.h \div 4]

\* Pair observations of the orchestration runs: a few matches, many matches
\* on the region, many matches projected onto a corner of it.
DetectPairs ==
    {[gm |-> 5, fit |-> TRUE, quad |-> QuadOn(Box40)],
     [gm |-> 30, fit |-> TRUE, quad |-> QuadOn(Box40)],
     [gm |-> 30, fit |-> TRUE, quad |-> QuadCorner(Box40)]}

DetectCands ==
    {[box |-> Box40, kp |-> 3, des |-> TRUE, hu |-> 0, m |-> [n \in RefNames |-> CHOOSE p \in DetectPairs : TRUE]]}
    \cup
    [box : {Box40}, kp : {20}, des : {TRUE}, hu : {0, HuThreshold + 1},
     m : [RefNames -> DetectPairs]]

NoWhole == [kp |-> 0, des |-> FALSE, m |-> [n \in RefNames |-> CHOOSE p \in DetectPairs : TRUE]]

DetectWholes ==
    {NoWhole} \cup [kp : {20}, des : {TRUE}, m : [RefNames -> DetectPairs]]

DetectContours ==
    {[color |-> "verde", area |-> 1000, w |-> 40, h |-> 40, hull |-> 1100],
     [color |-> "azul", area |-> 1000, w |-> 40, h |-> 40, hull |-> 1300]}

MalformedFrame ==
    [id |-> 0, drawn |-> <<>>, malformed |-> TRUE, cands |-> <<>>, whole |-> NoWhole,
     contours |-> <<>>]

\* Frames of the orchestration runs: the whole-frame observation matters only
\* when the region proposer found nothing.
DetectFrames ==
    {MalformedFrame}
    \cup [id : {1}, drawn : {<<>>}, malformed : {FALSE}, cands : {<<>>},
          whole : DetectWholes, contours : SeqUpTo(DetectContours, MaxContours)]
    \cup [id : {1}, drawn : {<<>>}, malformed : {FALSE},
          cands : SeqUpTo(DetectCands, MaxCands) \ {<<>>},
          whole : {NoWhole}, contours : SeqUpTo(DetectContours, MaxContours)]

DetectBanks == {<<RefA>>, <<RefA, RefB>>, <<RefB, RefA>>}

NoResult == [exc |-> FALSE, none |-> TRUE]
NoCap == [opens |-> 0, captures |-> 0, released |-> 0, reads |-> 0]
NoFrame == [id |-> -1]

(***************************************************************************)
(* Reference bank: OpenCVService.load_reference / load_references.         *)
(*   A reference file is what the file system, imread and detectAndCompute *)
(*   report for its path.                                                  *)
(***************************************************************************)
RefFile(path) ==
    CASE path = "A" -> [exists |-> TRUE, readable |-> TRUE, kp |-> 8, des |-> TRUE, hu |-> 0]
      [] path = "B" -> [exists |-> TRUE, readable |-> TRUE, kp |-> 40, des |-> TRUE, hu |-> NoHu]
      [] path = "few" -> [exists |-> TRUE, readable |-> TRUE, kp |-> 7, des |-> TRUE, hu |-> 0]
      [] path = "nodes" -> [exists |-> TRUE, readable |-> TRUE, kp |-> 0, des |-> FALSE, hu |-> NoHu]
      [] path = "unreadable" -> [exists |-> TRUE, readable |-> FALSE, kp |-> 0, des |-> FALSE, hu |-> NoHu]
      [] OTHER -> [exists |-> FALSE, readable |-> FALSE, kp |-> 0, des |-> FALSE, hu |-> NoHu]

RefPaths == {"A", "B", "few", "nodes", "unreadable", "missing"}

\* Mutation: a reference with 7 keypoints is taken.
TooFewKeypointsLax(kp, des) == ~des \/ kp < MinKeypoints - 1

\* "des is None or len(kp) < 8": the reference is refused.
TooFewKeypoints(kp, des) == ~des \/ kp < MinKeypoints

\* _load_single_reference: raises, or returns the ReferenceData.
LoadSingleReference(path) ==
    IF ~RefFile(path).exists THEN [exc |-> TRUE]
    ELSE IF ~RefFile(path).readable THEN [exc |-> TRUE]
    ELSE IF TooFewKeypoints(RefFile(path).kp, RefFile(path).des) THEN [exc |-> TRUE]
    ELSE [exc |-> FALSE,
          ref |-> [name |-> path, kp |-> RefFile(path).kp, des |-> RefFile(path).des,
                   hu |-> RefFile(path).hu]]

(***************************************************************************)
(* Sources and sinks.                                                      *)
(***************************************************************************)
\* SourceFactory.create_source and BaseSource.open for a path.
SourceInfo(path) ==
    CASE path = "img" -> [exists |-> TRUE, opens |-> TRUE, is_stream |-> FALSE, type |-> "image"]
      [] path = "vid" -> [exists |-> TRUE, opens |-> TRUE, is_stream |-> TRUE, type |-> "video"]
      [] OTHER -> [exists |-> FALSE, opens |-> FALSE, is_stream |-> FALSE, type |-> "none"]

SourcePaths == {"img", "vid", "nofile"}
NoPath == ""
ImageSuffixes == {"out.png"}

\* OutputFactory.create_save_observer: the kind of save observer.
SaveObserverKind(output_path, source_type) ==
    IF source_type = "image" THEN "save_image"
    ELSE IF output_path \in ImageSuffixes THEN "save_image"
    ELSE "save_video"

\* The observers _setup_output_observers registers, in order.
NewObservers(a, inv) ==
    (IF a.show_display THEN <<[kind |-> "display", inv |-> inv]>> ELSE <<>>)
    \o (IF a.output_path # NoPath
        THEN <<[kind |-> SaveObserverKind(a.output_path, SourceInfo(a.source_path).type),
                inv |-> inv]>>
        ELSE <<>>)
    \o (IF a.mask_path # NoPath /\ SourceInfo(a.source_path).type = "image"
        THEN <<[kind |-> "mask", inv |-> inv]>>
        ELSE <<>>)

\* Mutation: every key is set, as dict.update would, whether or not it names
\* a field.
ApplyParamsAnyKey(section, params) ==
    [k \in DOMAIN section \cup DOMAIN params |->
        IF k \in DOMAIN params THEN params[k] ELSE section[k]]

\* _apply_custom_params for one section: keys naming a field are set.
ApplyParams(section, params) ==
    [k \in DOMAIN section |-> IF k \in DOMAIN params THEN params[k] ELSE section[k]]

\* The fields of the application's color_detection section (settings.py
\* 55-78); the colour service's own configuration has drawing fields besides.
ColorSectionFields ==
    {"hsv_ranges", "min_area", "max_area", "aspect_min", "aspect_max", "solidity_min",
     "blur_kernel_size", "morph_kernel_size", "draw_bbox", "draw_labels"}

\* Mutation: colour overrides do not reach the colour service.
ApplyColorParamsIgnored(service, params) == service

\* detector.py 122-128: a colour key that names a field of the application's
\* section is also set on the colour service's configuration when that has
\* the field.
ApplyColorParams(service, params) ==
    [k \in DOMAIN service |->
        IF k \in DOMAIN params /\ k \in ColorSectionFields THEN params[k] ELSE service[k]]

\* Mutation: only "orb" loads the reference.
NeedsReferenceOrbOnly(detector_mode) == detector_mode = "orb"

\* detector.py 82: the modes that load the reference.
NeedsReference(detector_mode) == detector_mode \in {"orb", "auto"}

\* Mutation: the frame counter is not advanced.
FrameCountStuck(n) == n

\* detector.py 223: frame_count += 1.
FrameCountAfterRead(n) == n + 1

\* Mutation: the stop request is never honoured.
NeverBreak(md) == FALSE

\* detector.py 251: metadata.get('should_exit', False).
ShouldBreak(md) == "should_exit" \in DOMAIN md /\ md.should_exit

\* The metadata dict of a stream frame (detector.py 234-241) and of a still
\* image (detector.py 285-290).
StreamMetadata(source_type, n, r) ==
    [is_stream |-> TRUE, source_type |-> source_type, frame_number |-> n,
     matches |-> r.count, has_detection |-> r.has_detection, should_exit |-> FALSE]

ImageMetadata(source_type, r) ==
    [is_stream |-> FALSE, source_type |-> source_type,
     matches |-> r.count, has_detection |-> r.has_detection]

(***************************************************************************)
(* Frames a session reads.                                                 *)
(***************************************************************************)
PairWeak == [gm |-> 5, fit |-> TRUE, quad |-> QuadOn(Box40)]
PairStrong == [gm |-> 30, fit |-> TRUE, quad |-> QuadOn(Box40)]

\* Whole-frame hit.
FrameHit ==
    [id |-> 1, drawn |-> <<>>, malformed |-> FALSE, cands |-> <<>>,
     whole |-> [kp |-> 20, des |-> TRUE, m |-> [n \in RefNames |-> PairStrong]],
     contours |-> <<>>]
\* Whole-frame miss with a few matches, hit when min_matches is lowered.
FrameWeak ==
    [id |-> 2, drawn |-> <<>>, malformed |-> FALSE, cands |-> <<>>,
     whole |-> [kp |-> 20, des |-> TRUE, m |-> [n \in RefNames |-> PairWeak]],
     contours |-> <<>>]
\* Keypoint miss on a region, one accepted colour contour.
FrameColor ==
    [id |-> 3, drawn |-> <<>>, malformed |-> FALSE,
     cands |-> <<[box |-> Box40, kp |-> 20, des |-> TRUE, hu |-> 0,
                  m |-> [n \in RefNames |-> PairWeak]]>>,
     whole |-> NoWhole,
     contours |-> <<[color |-> "verde", area |-> 1000, w |-> 40, h |-> 40, hull |-> 1100]>>]

SessionFrames == {FrameHit, FrameWeak, FrameColor, MalformedFrame}

\* Calls of detect_from_source: no override, a keypoint override, or a
\* keypoint and a colour override.
ArgSets ==
    {a \in [mode : Modes, reference_path : {"A", "few"}, source_path : SourcePaths,
            output_path : {NoPath, "out.mp4"}, mask_path : {NoPath, "mask.png"},
            show_display : BOOLEAN,
            custom_orb_params : {<<>>, [min_matches |-> CliMinMatches]},
            custom_color_params : {<<>>, [min_area |-> 1200]}] :
        DOMAIN a.custom_color_params # {} => DOMAIN a.custom_orb_params # {}}

(***************************************************************************)
(* Spec: NopalDetector.detect_from_source, step by step.                   *)
(***************************************************************************)
Init ==
    /\ config = DefaultConfig
    /\ color_config = DefaultColorConfig
    /\ reference_data = None
    /\ reference_bank = <<>>
    /\ observers = <<>>
    /\ pc = "idle"
    /\ args = [mode |-> "none"]
    /\ cap = NoCap
    /\ frame = NoFrame
    /\ result = NoResult
    /\ metadata = None
    /\ frame_count = 0
    /\ obs_i = 0
    /\ invocations = 0
    /\ log = <<>>
    /\ ret = "none"

IsStream == SourceInfo(args.source_path).is_stream

\* The with-block of _process_source is left: SourceManager.release.
Released(c) ==
    IF c.captures > 0
    THEN [c EXCEPT !.captures = @ - 1, !.released = @ + 1]
    ELSE c

\* detect_from_source is entered with arguments a (detector.py 48-59): the
\* detector object keeps its configuration, bank and registered observers.
Enter(a) ==
    /\ pc = "idle"
    /\ args' = [obs0 |-> Len(observers)] @@ a
    /\ invocations' = invocations + 1
    /\ pc' = "apply"
    /\ cap' = NoCap
    /\ frame' = NoFrame
    /\ result' = NoResult
    /\ metadata' = None
    /\ frame_count' = 0
    /\ obs_i' = 0
    /\ log' = <<>>
    /\ ret' = "none"
    /\ UNCHANGED <<config, color_config, reference_data, reference_bank, observers>>

Call(a) ==
    /\ invocations < MaxInvocations
    /\ Enter(a)

\* _apply_custom_params (detector.py 79, 103-129).
ApplyCustomParams ==
    /\ pc = "apply"
    /\ config' = ApplyParams(config, args.custom_orb_params)
    /\ color_config' = ApplyColorParams(color_config, args.custom_color_params)
    /\ pc' = "load"
    /\ UNCHANGED <<reference_data, reference_bank, observers, args, cap,
                   frame, result, metadata, frame_count, obs_i, invocations, log, ret>>

\* What load_reference does with the outcome r of _load_single_reference.
ReferenceLoaded(r) ==
    IF r.exc
    THEN /\ log' = Append(log, [ev |-> "load", ok |-> FALSE])
         /\ ret' = "False"
         /\ pc' = "cleanup"
         /\ UNCHANGED <<reference_data, reference_bank>>
    ELSE /\ log' = Append(log, [ev |-> "load", ok |-> TRUE])
         /\ reference_data' = r.ref
         /\ reference_bank' = <<r.ref>>
         /\ pc' = "setup"
         /\ UNCHANGED ret

\* detector.py 81-84: the reference is loaded for the keypoint modes.
LoadReference ==
    /\ pc = "load"
    /\ IF NeedsReference(args.mode)
       THEN ReferenceLoaded(LoadSingleReference(args.reference_path))
       ELSE /\ pc' = "setup"
            /\ UNCHANGED <<reference_data, reference_bank, log, ret>>
    /\ UNCHANGED <<config, color_config, observers, args, cap, frame, result, metadata,
                   frame_count, obs_i, invocations>>

\* _setup_output_observers (detector.py 131-174): opens the source to learn
\* its type, registers the observers, releases the source.
SetupOutputObservers ==
    /\ pc = "setup"
    /\ IF SourceInfo(args.source_path).exists /\ SourceInfo(args.source_path).opens
       THEN /\ observers' = observers \o NewObservers(args, invocations)
            /\ cap' = [cap EXCEPT !.opens = @ + 1,
                                  !.released = IF IsStream THEN @ + 1 ELSE @]
            /\ pc' = "open"
            /\ UNCHANGED ret
       ELSE /\ ret' = "False"
            /\ pc' = "cleanup"
            /\ UNCHANGED <<observers, cap>>
    /\ UNCHANGED <<config, color_config, reference_data, reference_bank, args, frame,
                   result, metadata, frame_count, obs_i, invocations, log>>

\* _process_source enters its with-block (detector.py 187-195).
ProcessSource ==
    /\ pc = "open"
    /\ IF SourceInfo(args.source_path).exists /\ SourceInfo(args.source_path).opens
       THEN /\ cap' = [cap EXCEPT !.opens = @ + 1,
                                  !.captures = IF IsStream THEN @ + 1 ELSE @]
            /\ pc' = IF IsStream THEN "read" ELSE "single"
            /\ UNCHANGED ret
       ELSE /\ ret' = "False"
            /\ pc' = "cleanup"
            /\ UNCHANGED cap
    /\ UNCHANGED <<config, color_config, reference_data, reference_bank, observers, args,
                   frame, result, metadata, frame_count, obs_i, invocations, log>>

\* read_frame returns a frame (detector.py 218, 223).
ReadFrame(f) ==
    /\ pc = "read"
    /\ cap.reads < MaxFrames
    /\ frame' = f
    /\ frame_count' = FrameCountAfterRead(frame_count)
    /\ cap' = [cap EXCEPT !.reads = @ + 1]
    /\ log' = Append(log, [ev |-> "read"])
    /\ pc' = "detect"
    /\ UNCHANGED <<config, color_config, reference_data, reference_bank, observers, args,
                   result, metadata, obs_i, invocations, ret>>

\* read_frame returns None: the loop breaks and the stream ends with success
\* (detector.py 219-221, 259).
EndOfStream ==
    /\ pc = "read"
    /\ log' = Append(log, [ev |-> "eos"])
    /\ cap' = Released(cap)
    /\ ret' = "True"
    /\ pc' = "cleanup"
    /\ UNCHANGED <<config, color_config, reference_data, reference_bank, observers, args,
                   frame, result, metadata, frame_count, obs_i, invocations>>

\* _process_single_frame takes the image the source loaded (detector.py 272).
TakeImage(f) ==
    /\ pc = "single"
    /\ frame' = f
    /\ log' = Append(log, [ev |-> "read"])
    /\ pc' = "detect"
    /\ UNCHANGED <<config, color_config, reference_data, reference_bank, observers, args,
                   cap, result, metadata, frame_count, obs_i, invocations, ret>>

\* Mutation: a frame without a hit is handled like a failed detection call.
DetectedMissIsError(r) ==
    IF r.exc \/ ~r.has_detection
    THEN /\ log' = Append(log, [ev |-> "detect", ok |-> ~r.exc])
         /\ cap' = Released(cap)
         /\ ret' = "False"
         /\ pc' = "cleanup"
         /\ UNCHANGED <<result, metadata, obs_i>>
    ELSE /\ result' = r
         /\ metadata' = IF IsStream
                        THEN StreamMetadata(SourceInfo(args.source_path).type, frame_count, r)
                        ELSE ImageMetadata(SourceInfo(args.source_path).type, r)
         /\ log' = log \o <<[ev |-> "detect", ok |-> TRUE],
                            [ev |-> "emit", fn |-> IF IsStream THEN frame_count ELSE 0,
                             hit |-> r.has_detection]>>
         /\ obs_i' = 1
         /\ pc' = "notify"
         /\ UNCHANGED <<cap, ret>>

\* The detection call returned r (detector.py 226-248, 280-297): on an
\* exception the with-block is left and _process_source returns False;
\* otherwise the metadata is built and notify_result starts.
Detected(r) ==
    IF r.exc
    THEN /\ log' = Append(log, [ev |-> "detect", ok |-> FALSE])
         /\ cap' = Released(cap)
         /\ ret' = "False"
         /\ pc' = "cleanup"
         /\ UNCHANGED <<result, metadata, obs_i>>
    ELSE /\ result' = r
         /\ metadata' = IF IsStream
                        THEN StreamMetadata(SourceInfo(args.source_path).type, frame_count, r)
                        ELSE ImageMetadata(SourceInfo(args.source_path).type, r)
         /\ log' = log \o <<[ev |-> "detect", ok |-> TRUE],
                            [ev |-> "emit", fn |-> IF IsStream THEN frame_count ELSE 0,
                             hit |-> r.has_detection]>>
         /\ obs_i' = 1
         /\ pc' = "notify"
         /\ UNCHANGED <<cap, ret>>

DetectFrame ==
    /\ pc = "detect"
    /\ Detected(DetectWithMode(frame, args.mode, reference_bank, config, color_config))
    /\ UNCHANGED <<config, color_config, reference_data, reference_bank, observers, args,
                   frame, frame_count, invocations>>

\* Mutation: an exception of on_result leaves the loop over the observers.
NextObserverUnlessRaised(i, raised) == IF raised THEN Len(observers) + 1 ELSE i + 1

\* output.py 166-170: the for loop goes on to the next observer whether
\* on_result returned or raised; the except clause only logs.
NextObserver(i, raised) == i + 1

\* notify_result hands the result to the next observer (output.py 166-170);
\* a display observer of a stream sets should_exit when 'q' is pressed
\* (output.py 46-48).  raised: on_result raised, before it did anything.
OnResult(key_q, raised) ==
    /\ key_q => (observers[obs_i].kind = "display" /\ metadata.is_stream /\ ~raised)
    /\ metadata' = IF key_q THEN [metadata EXCEPT !.should_exit = TRUE] ELSE metadata
    /\ log' = Append(log, [ev |-> "sink", i |-> obs_i, stop |-> key_q, raised |-> raised])
    /\ obs_i' = NextObserver(obs_i, raised)
    /\ UNCHANGED <<config, color_config, reference_data, reference_bank, observers, pc,
                   args, cap, frame, result, frame_count, invocations, ret>>

\* The sinks of a session that all work.
NotifyOne(key_q) ==
    /\ pc = "notify"
    /\ obs_i <= Len(observers)
    /\ OnResult(key_q, FALSE)

\* detector.py 250-252: the stop request is polled after notify_result.
CheckExit ==
    /\ pc = "notify"
    /\ obs_i > Len(observers)
    /\ IsStream
    /\ log' = Append(log, [ev |-> "check"])
    /\ IF ShouldBreak(metadata)
       THEN /\ cap' = Released(cap)
            /\ ret' = "True"
            /\ pc' = "cleanup"
       ELSE /\ pc' = "read"
            /\ UNCHANGED <<cap, ret>>
    /\ UNCHANGED <<config, color_config, reference_data, reference_bank, observers, args,
                   frame, result, metadata, frame_count, obs_i, invocations>>

\* _process_single_frame returns True after notify_result (detector.py 310).
ImageDone ==
    /\ pc = "notify"
    /\ obs_i > Len(observers)
    /\ ~IsStream
    /\ ret' = "True"
    /\ pc' = "cleanup"
    /\ UNCHANGED <<config, color_config, reference_data, reference_bank, observers, args,
                   cap, frame, result, metadata, frame_count, obs_i, invocations, log>>

\* The observer classes that define cleanup (output.py 51-54, 139-143).
HasCleanup(kind) == kind \in {"display", "save_video"}

\* Mutation: cleanup reaches only the first registered observer.
CleanedUpFirst(obs) == {i \in DOMAIN obs : i = 1 /\ HasCleanup(obs[i].kind)}

\* OutputManager.cleanup (output.py 172-179): the observers whose cleanup
\* is invoked.
CleanedUp(obs) == {i \in DOMAIN obs : HasCleanup(obs[i].kind)}

\* The finally block (detector.py 99-101) and the return.
Cleanup ==
    /\ pc = "cleanup"
    /\ log' = Append(log, [ev |-> "cleanup", sinks |-> CleanedUp(observers)])
    /\ pc' = "idle"
    /\ UNCHANGED <<config, color_config, reference_data, reference_bank, observers, args,
                   cap, frame, result, metadata, frame_count, obs_i, invocations, ret>>

Next ==
    \/ \E a \in ArgSets : Call(a)
    \/ ApplyCustomParams
    \/ LoadReference
    \/ SetupOutputObservers
    \/ ProcessSource
    \/ \E f \in SessionFrames : ReadFrame(f)
    \/ EndOfStream
    \/ \E f \in SessionFrames : TakeImage(f)
    \/ DetectFrame
    \/ \E key_q \in BOOLEAN : NotifyOne(key_q)
    \/ CheckExit
    \/ ImageDone
    \/ Cleanup

Spec == Init /\ [][Next]_vars

(***************************************************************************)
(* The log of an invocation: "read" (a frame was obtained), "detect" (the  *)
(* detection call returned or raised), "emit" (notify_result was called    *)
(* with this frame_number), "sink" (observer i got the result), "check"    *)
(* (the stop request was polled), "eos", "load".                           *)
(***************************************************************************)
At(ev) == {i \in DOMAIN log : log[i].ev = ev}
Reads == At("read")
\* 1-based ordinal of the frame read at position i.
Ordinal(i) == Cardinality({j \in Reads : j <= i})
\* Position of the read that follows position i, or the end of the log.
NextRead(i) ==
    IF \E j \in Reads : j > i
    THEN CHOOSE j \in Reads : j > i /\ \A k \in Reads : k > i => j <= k
    ELSE Len(log) + 1
\* Events of kind ev that belong to the frame read at position i.
Of(i, ev) == {j \in (i + 1)..(NextRead(i) - 1) : log[j].ev = ev}
SinkOf(i, o) == {j \in Of(i, "sink") : log[j].i = o}
Finished == pc \in {"cleanup", "idle"} /\ invocations > 0
\* The frame read at i is over: another frame was read or the loop was left.
FrameClosed(i) == NextRead(i) <= Len(log) \/ Finished
DetectionRaised == \E j \in At("detect") : ~log[j].ok

\* C4 (as stated): a detection call that raises on a frame of a stream does
\* not abort the stream; the loop goes on to the next read and the invocation
\* ends with success.
C4_StreamSurvivesFrameFailure ==
    (Finished /\ IsStream /\ DetectionRaised)
        => /\ ret = "True"
           /\ \A j \in At("detect") :
                  ~log[j].ok => \E k \in At("read") \cup At("eos") : k > j

\* The shape every frame's events have in the log: at most one detection, one
\* emission and one delivery per observer, in that order, deliveries in
\* registration order, the emitted frame_number being the frame's ordinal.
FrameEventsOrdered(i) ==
    /\ Cardinality(Of(i, "detect")) <= 1
    /\ Cardinality(Of(i, "emit")) <= 1
    /\ \A o \in 1..Len(observers) : Cardinality(SinkOf(i, o)) <= 1
    /\ \A d \in Of(i, "detect"), e \in Of(i, "emit") : d < e
    /\ \A e \in Of(i, "emit"), k \in Of(i, "sink") : e < k
    /\ \A k1, k2 \in Of(i, "sink") : k1 < k2 => log[k1].i < log[k2].i
    /\ \A e \in Of(i, "emit") : IsStream => log[e].fn = Ordinal(i)

\* The frame read at i was detected and its result emitted once and delivered
\* once to every observer.
FrameDelivered(i) ==
    /\ \E d \in Of(i, "detect") : log[d].ok
    /\ Cardinality(Of(i, "emit")) = 1
    /\ \A o \in 1..Len(observers) : Cardinality(SinkOf(i, o)) = 1

\* The detection of the frame read at i raised: nothing is emitted for it.
FrameFailed(i) ==
    /\ \E d \in Of(i, "detect") : ~log[d].ok
    /\ Of(i, "emit") = {} /\ Of(i, "sink") = {}

\* C6 (as stated): frames are processed one at a time in read order; every
\* frame read is detected and its result delivered to the sinks before the
\* next read; exactly one result per frame read, numbered 1, 2, 3, ...; a
\* still image yields exactly one frame and one result.
C6_OneResultPerFrameRead ==
    invocations > 0 =>
        /\ \A i \in Reads : FrameEventsOrdered(i) /\ (FrameClosed(i) => FrameDelivered(i))
        /\ ~IsStream => Cardinality(Reads) <= 1

\* C6 (amended): frames are processed one at a time in read order; a frame
\* whose detection call returns gets exactly one result, delivered to every
\* sink before anything else is read, with frame_number the 1-based ordinal
\* of the frame; a frame whose detection call raises gets no result.  A still
\* image is one frame, with one result when the invocation succeeds.
C6_OneResultPerDetectedFrame ==
    invocations > 0 =>
        /\ \A i \in Reads :
               /\ FrameEventsOrdered(i)
               /\ FrameClosed(i) => (FrameDelivered(i) \/ FrameFailed(i))
        /\ ~IsStream => Cardinality(Reads) <= 1
        /\ (~IsStream /\ ret = "True") => Cardinality(Reads) = 1 /\ Cardinality(At("emit")) = 1

\* A stream whose two frames were each delivered to two observers, numbered 1
\* and 2, before the end of the sequence.
C6_Witness ==
    /\ invocations > 0
    /\ pc = "idle" /\ IsStream /\ ret = "True"
    /\ Cardinality(Reads) = 2
    /\ Len(observers) = 2
    /\ \A i \in Reads : FrameDelivered(i)
    /\ {log[e].fn : e \in At("emit")} = {1, 2}

\* C5: cancellation is polled once per frame, after the frame's result was
\* delivered: when a sink signals stop on frame k, detection of k is complete,
\* every registered sink still receives k's result, the request is polled
\* after the last delivery, and no further frame is read.
C5_StopHonouredAfterDelivery ==
    /\ \A c \in At("check") :
           \E i \in Reads :
               /\ c \in Of(i, "check")
               /\ Cardinality(Of(i, "check")) = 1
               /\ \A o \in 1..Len(observers) : \E k \in SinkOf(i, o) : k < c
    /\ \A i \in Reads :
           (FrameClosed(i) /\ IsStream /\ Of(i, "emit") # {}) => Cardinality(Of(i, "check")) = 1
    /\ \A i \in Reads : \A k \in Of(i, "sink") :
           log[k].stop =>
               /\ \E d \in Of(i, "detect") : d < k /\ log[d].ok
               /\ NextRead(i) > Len(log)
               /\ At("eos") = {}
               /\ Finished => /\ \A o \in 1..Len(observers) : SinkOf(i, o) # {}
                              /\ ret = "True"
    /\ ShouldBreak(metadata) => \E k \in At("sink") : log[k].stop

\* The first observer (the display) signals stop on the first frame; the
\* second observer still gets that frame, and the stream ends there although
\* the source had more frames.
C5_Witness ==
    /\ invocations > 0
    /\ pc = "idle" /\ IsStream /\ ret = "True"
    /\ Len(observers) = 2
    /\ Cardinality(Reads) = 1 /\ cap.reads < MaxFrames
    /\ \E k \in At("sink") : log[k].stop /\ log[k].i = 1
    /\ \E k \in At("sink") : log[k].i = 2

PastLoad == invocations > 0 /\ pc \notin {"apply", "load"}

\* C7: the reference is loaded exactly when the mode is orb or auto, and in
\* those modes a failed load ends the invocation with failure before the
\* source is opened, any sink registered or notified, or any frame processed.
C7_ReferenceLoadFatal ==
    PastLoad =>
        /\ (At("load") # {}) <=> (args.mode \in {"orb", "auto"})
        /\ (args.mode \in {"orb", "auto"} /\ LoadSingleReference(args.reference_path).exc)
               => /\ Finished
                  /\ ret = "False"
                  /\ cap.opens = 0
                  /\ Len(observers) = args.obs0
                  /\ At("read") \cup At("detect") \cup At("emit") \cup At("sink") = {}

\* An AUTO invocation with sinks requested whose reference has 7 keypoints.
C7_Witness ==
    /\ pc = "idle" /\ invocations > 0
    /\ args.mode = "auto" /\ args.reference_path = "few"
    /\ args.show_display /\ args.output_path # NoPath
    /\ args.source_path = "vid"
    /\ ret = "False" /\ observers = <<>> /\ cap.opens = 0
    /\ reference_bank = <<>>

(***************************************************************************)
(* SpecDetect: _detect_with_mode applied to one frame.                     *)
(***************************************************************************)
InitDetect ==
    /\ config = DefaultConfig
    /\ color_config = DefaultColorConfig
    /\ reference_bank \in DetectBanks
    /\ reference_data = reference_bank[1]
    /\ observers = <<>>
    /\ pc = "input"
    /\ args = [mode |-> "none"]
    /\ cap = NoCap
    /\ frame \in DetectFrames
    /\ result = NoResult
    /\ metadata = None
    /\ frame_count = 0
    /\ obs_i = 0
    /\ invocations = 0
    /\ log = <<>>
    /\ ret = "none"

DetectOnce(detector_mode) ==
    /\ pc = "input"
    /\ result' = DetectWithMode(frame, detector_mode, reference_bank, config, color_config)
    /\ args' = [mode |-> detector_mode]
    /\ pc' = "detected"
    /\ UNCHANGED <<config, color_config, reference_data, reference_bank, observers,
                   cap, frame, metadata, frame_count, obs_i, invocations, log, ret>>

NextDetect == \E detector_mode \in Modes : DetectOnce(detector_mode)

SpecDetect == InitDetect /\ [][NextDetect]_vars

\* What each pipeline alone reports on the frame under test.
KeypointResult == DetectInFrame(frame, reference_bank, config)
ColorResult == ColorDetectInFrame(frame, color_config)
ResultTuple(r) == <<r.frame, r.mask, r.has_detection, r.count>>
AutoDone == pc = "detected" /\ args.mode = "auto" /\ ~frame.malformed

\* C1: in AUTO mode, when the keypoint pipeline reports a hit the colour
\* pipeline is not invoked for that frame and the returned tuple is exactly
\* the tuple keypoint-only mode returns for the same frame.
C1_AutoHitSkipsColor ==
    (AutoDone /\ KeypointResult.has_detection)
        => /\ ~result.exc
           /\ result.color_calls = 0
           /\ ResultTuple(result) = ResultTuple(OrbOnly(frame, reference_bank, config))

\* A keypoint hit on a frame on which the colour pipeline would also have
\* found an accepted contour.
C1_Witness ==
    /\ AutoDone /\ KeypointResult.has_detection
    /\ ColorResult.total_detections > 0
    /\ result.color_calls = 0

\* C2: in AUTO mode, when the keypoint pipeline reports no hit and the colour
\* pipeline accepts at least one contour, the returned tuple equals the
\* colour-only tuple for the same original frame: colour overlay, colour
\* mask, hit = true, count = total colour detections.
C2_AutoFallbackIsColorOnly ==
    (AutoDone /\ ~KeypointResult.has_detection /\ ColorResult.total_detections >= 1)
        => /\ ~result.exc
           /\ ResultTuple(result) = ResultTuple(ColorOnly(frame, color_config))
           /\ result.frame = ColorResult.frame_with_overlay
           /\ result.mask = ColorResult.mask
           /\ result.has_detection
           /\ result.count = ColorResult.total_detections

\* The fallback taken after the keypoint pipeline drew its failure banner on
\* its own output frame, in the region path.
C2_Witness ==
    /\ AutoDone /\ ~KeypointResult.has_detection
    /\ ColorResult.total_detections = 2
    /\ Len(frame.cands) > 0
    /\ result.has_detection /\ result.count = 2

\* Pairs the keypoint pipeline matched on the frame: every reference on the
\* whole frame, or every (candidate, reference) pair that passed the keypoint
\* count and the shape pre-filter.
TriedPairs ==
    IF Len(frame.cands) = 0
    THEN IF EnoughKeypoints(frame.whole.kp, frame.whole.des)
         THEN {[gm |-> frame.whole.m[reference_bank[i].name].gm, box |-> NoBox] :
                  i \in 1..Len(reference_bank)}
         ELSE {}
    ELSE {[gm |-> frame.cands[ci].m[reference_bank[i].name].gm, box |-> frame.cands[ci].box] :
              <<ci, i>> \in
                  {q \in (1..Len(frame.cands)) \X (1..Len(reference_bank)) :
                      /\ EnoughKeypoints(frame.cands[q[1]].kp, frame.cands[q[1]].des)
                      /\ ~ShapeRejected(reference_bank[q[2]], frame.cands[q[1]].hu)}}

BelowThresholdMatches ==
    \E t \in TriedPairs : t.gm > 0 /\ t.gm < MinMatchesFor(config, t.box)

BothMiss ==
    AutoDone /\ ~KeypointResult.has_detection /\ ColorResult.total_detections = 0

\* C3: in AUTO mode, when both pipelines report no detection the result has
\* hit = false and its count is the keypoint pipeline's good-match count,
\* non-zero whenever some tried pair had good matches below the threshold, in
\* the region path as well as in the whole-frame path.
C3_BothMissKeepsMatchCount ==
    BothMiss
        => /\ ~result.exc
           /\ ~result.has_detection
           /\ result.count = KeypointResult.matches_found
           /\ (BelowThresholdMatches => result.count > 0)


(***************************************************************************)
(* SpecRef: load_reference and load_references applied, in any order, to   *)
(* an OpenCVService that starts with no reference.  args records the last  *)
(* operation and the references held before it.                            *)
(***************************************************************************)
MaxPaths == 3
ManyPaths == {"A", "B", "few", "missing"}

\* detection.py 112-116: the references of the paths that load, in order.
RECURSIVE LoadedBank(_, _, _)
LoadedBank(paths, i, bank) ==
    IF i > Len(paths) THEN bank
    ELSE LoadedBank(paths, i + 1,
                    IF LoadSingleReference(paths[i]).exc THEN bank
                    ELSE Append(bank, LoadSingleReference(paths[i]).ref))

\* Mutation: the primary is the last reference loaded.
PrimaryLast(bank) == bank[Len(bank)]

\* detection.py 119: self._reference_data = bank[0].
Primary(bank) == bank[1]

InitRef ==
    /\ config = DefaultConfig
    /\ color_config = DefaultColorConfig
    /\ reference_data = None
    /\ reference_bank = <<>>
    /\ observers = <<>>
    /\ pc = "ref"
    /\ args = [op |-> "none"]
    /\ cap = NoCap
    /\ frame = NoFrame
    /\ result = NoResult
    /\ metadata = None
    /\ frame_count = 0
    /\ obs_i = 0
    /\ invocations = 0
    /\ log = <<>>
    /\ ret = "none"

\* What load_reference does with the outcome r of _load_single_reference
\* (detection.py 101-103).
SingleInstalled(r, path) ==
    /\ args' = [op |-> "load_reference", paths |-> <<path>>, exc |-> r.exc,
                prev_data |-> reference_data, prev_bank |-> reference_bank]
    /\ IF r.exc
       THEN UNCHANGED <<reference_data, reference_bank>>
       ELSE /\ reference_data' = r.ref
            /\ reference_bank' = <<r.ref>>

\* OpenCVService.load_reference(path).
LoadReferenceOp(path) ==
    /\ pc = "ref"
    /\ invocations < MaxLoads
    /\ invocations' = invocations + 1
    /\ SingleInstalled(LoadSingleReference(path), path)
    /\ UNCHANGED <<config, color_config, observers, pc, cap, frame, result, metadata,
                   frame_count, obs_i, log, ret>>

\* What load_references does with the bank it collected (detection.py 117-119).
BankInstalled(bank, paths) ==
    /\ args' = [op |-> "load_references", paths |-> paths, exc |-> bank = <<>>,
                prev_data |-> reference_data, prev_bank |-> reference_bank]
    /\ IF bank = <<>>
       THEN UNCHANGED <<reference_data, reference_bank>>
       ELSE /\ reference_bank' = bank
            /\ reference_data' = Primary(bank)

\* OpenCVService.load_references(paths).
LoadReferencesOp(paths) ==
    /\ pc = "ref"
    /\ invocations < MaxLoads
    /\ invocations' = invocations + 1
    /\ BankInstalled(LoadedBank(paths, 1, <<>>), paths)
    /\ UNCHANGED <<config, color_config, observers, pc, cap, frame, result, metadata,
                   frame_count, obs_i, log, ret>>

NextRef ==
    \/ \E path \in RefPaths : LoadReferenceOp(path)
    \/ \E paths \in SeqUpTo(ManyPaths, MaxPaths) : LoadReferencesOp(paths)

SpecRef == InitRef /\ [][NextRef]_vars

\* A file that exists, decodes, and has descriptors and 8 keypoints or more.
Usable(path) ==
    /\ RefFile(path).exists /\ RefFile(path).readable
    /\ RefFile(path).des /\ RefFile(path).kp >= 8
WellFormed(ref) == ref.kp >= 8 /\ ref.des
HeldBefore == reference_data = args.prev_data /\ reference_bank = args.prev_bank

\* C8: load_reference either installs a reference with 8 keypoints or more
\* and descriptors as the primary and as the only bank entry, or (missing,
\* unreadable, no descriptors, fewer than 8 keypoints) raises and leaves the
\* primary and the bank as they were; after any sequence of loads every bank
\* entry has 8 keypoints or more and descriptors.
C8_SingleLoadAllOrNothing ==
    /\ args.op = "load_reference" =>
           /\ args.exc <=> ~Usable(args.paths[1])
           /\ IF args.exc
              THEN HeldBefore
              ELSE /\ reference_bank = <<reference_data>>
                   /\ reference_data.name = args.paths[1]
                   /\ WellFormed(reference_data)
    /\ \A i \in DOMAIN reference_bank : WellFormed(reference_bank[i])

\* A 7-keypoint reference is refused while a bank of two is held.
C8_Witness ==
    /\ args.op = "load_reference" /\ args.exc
    /\ args.paths = <<"few">>
    /\ Len(args.prev_bank) = 2
    /\ reference_bank = args.prev_bank

GoodPaths == SelectSeq(args.paths, Usable)

\* C9: load_references skips the paths that fail and keeps the others in
\* input order; it raises only when every path fails, leaving the bank and
\* the primary as they were; on success the primary is the first bank entry.
C9_ManyLoadSkipsFailures ==
    args.op = "load_references" =>
        /\ args.exc <=> GoodPaths = <<>>
        /\ IF args.exc
           THEN HeldBefore
           ELSE /\ Len(reference_bank) = Len(GoodPaths)
                /\ \A i \in DOMAIN reference_bank : reference_bank[i].name = GoodPaths[i]
                /\ reference_data = reference_bank[1]

\* A failing path between two usable ones: the bank keeps both, in order.
C9_Witness ==
    /\ args.op = "load_references" /\ ~args.exc
    /\ args.paths = <<"B", "missing", "A">>
    /\ Len(reference_bank) = 2
    /\ reference_bank[1].name = "B" /\ reference_bank[2].name = "A"
    /\ reference_data = reference_bank[1]
    /\ args.prev_bank # <<>>


(***************************************************************************)
(* SpecMatch: _try_match_and_draw on one reference/target pair, for every  *)
(* min_matches the command line accepts up to the default, on the whole    *)
(* frame and on regions of perimeter 160, 660 and 1000.                    *)
(***************************************************************************)
MaxMatches == 22

Box165 == [x |-> 0, y |-> 0, w |-> 165, h |-> 165]
Box250 == [x |-> 0, y |-> 0, w |-> 250, h |-> 250]
MatchBoxes == {NoBox, Box40, Box165, Box250}
MatchBases == CliMinMatches..DefaultMinMatches

\* A pair with g good matches whose projection, when the fit succeeds, covers
\* the region.
MatchInput(b, g, f) ==
    [roi_box |-> b,
     pair |-> [gm |-> g, fit |-> f, quad |-> QuadOn(IF b = NoBox THEN Box40 ELSE b)]]

InitMatch ==
    /\ config \in [min_matches : MatchBases]
    /\ color_config = DefaultColorConfig
    /\ reference_data = RefA
    /\ reference_bank = <<RefA>>
    /\ observers = <<>>
    /\ pc = "pair"
    /\ args \in {MatchInput(b, g, f) : b \in MatchBoxes, g \in 0..MaxMatches, f \in BOOLEAN}
    /\ cap = NoCap
    /\ frame = NoFrame
    /\ result = NoResult
    /\ metadata = None
    /\ frame_count = 0
    /\ obs_i = 0
    /\ invocations = 0
    /\ log = <<>>
    /\ ret = "none"

TryMatch ==
    /\ pc = "pair"
    /\ result' = TryMatchAndDraw(reference_data, args.pair, <<>>, args.roi_box, config, 0)
    /\ pc' = "matched"
    /\ UNCHANGED <<config, color_config, reference_data, reference_bank, observers, args,
                   cap, frame, metadata, frame_count, obs_i, invocations, log, ret>>

NextMatch == TryMatch

SpecMatch == InitMatch /\ [][NextMatch]_vars

Matched == pc = "matched"
OnRegion == args.roi_box # NoBox
Perimeter == 2 * (args.roi_box.w + args.roi_box.h)
\* The pair went on to pose fitting, and the fit and the overlap test passed.
PairAccepted == result.ok

\* C10 (as stated): the threshold is max(base, 0.02 x perimeter) on a region
\* and base on the whole frame, for every base >= 4, and a match set is
\* accepted iff its size is at least the threshold (50 * size >= perimeter
\* is size >= 0.02 x perimeter).
C10_ThresholdIsMaxBasePerimeter ==
    (Matched /\ args.pair.fit) =>
        IF OnRegion
        THEN PairAccepted <=> (/\ args.pair.gm >= config.min_matches
                               /\ 50 * args.pair.gm >= Perimeter)
        ELSE PairAccepted <=> args.pair.gm >= config.min_matches

\* C10 (amended): on a region the threshold is max(12, base, floor(0.02 x
\* perimeter)); on the whole frame it is base; a match set is accepted iff
\* its size is at least the threshold (50 * size > perimeter - 50 is size >=
\* floor(perimeter / 50)).
C10_ThresholdHasFloorTwelve ==
    /\ Matched => (PairAccepted => args.pair.fit)
    /\ (Matched /\ args.pair.fit) =>
           IF OnRegion
           THEN PairAccepted <=> (/\ args.pair.gm >= 12
                                  /\ args.pair.gm >= config.min_matches
                                  /\ 50 * args.pair.gm > Perimeter - 50)
           ELSE PairAccepted <=> args.pair.gm >= config.min_matches

\* Base 4 on a region of perimeter 660: 13 matches are accepted (0.02 x 660
\* is 13.2) and the result carries the match count.
C10_Witness ==
    /\ Matched /\ OnRegion /\ args.pair.fit
    /\ config.min_matches = 4 /\ Perimeter = 660
    /\ args.pair.gm = 13
    /\ PairAccepted /\ result.gm = 13


\* The threshold in force for the pair under test: min_matches on the whole
\* frame, max(12, min_matches, floor(perimeter / 50)) on a region.
ThresholdInForce ==
    IF OnRegion
    THEN Max(12, Max(config.min_matches, Perimeter \div 50))
    ELSE config.min_matches

\* C11 (as stated): with one good match fewer than min_matches the detection
\* fails, and with one more than min_matches and a consistent point set (the
\* fit succeeds, the projection covers the region) it succeeds, on the whole
\* frame and on a region alike.
C11_MonotonicAroundMinMatches ==
    Matched =>
        /\ args.pair.gm = config.min_matches - 1 => ~PairAccepted
        /\ (args.pair.gm = config.min_matches + 1 /\ args.pair.fit) => PairAccepted

\* C11 (amended): with one good match fewer than min_matches, or than the
\* threshold in force, the detection fails; with one more than the threshold
\* in force and a consistent point set it succeeds.
C11_MonotonicAroundThreshold ==
    Matched =>
        /\ args.pair.gm = config.min_matches - 1 => ~PairAccepted
        /\ args.pair.gm = ThresholdInForce - 1 => ~PairAccepted
        /\ (args.pair.gm = ThresholdInForce + 1 /\ args.pair.fit) => PairAccepted

\* Default min_matches on a region of perimeter 1000: the threshold in force
\* is 20, and 21 good matches with a consistent point set are accepted.
C11_Witness ==
    /\ Matched /\ OnRegion /\ Perimeter = 1000
    /\ config.min_matches = 18
    /\ args.pair.gm = 21 /\ args.pair.fit
    /\ PairAccepted


(***************************************************************************)
(* SpecIou: _try_match_and_draw on a pair with enough matches and a        *)
(* successful fit, for projected quadrilaterals inside, across and far     *)
(* beyond the region, on two regions and on the whole frame.               *)
(***************************************************************************)
IouReach == 200

Box40At20 == [x |-> 20, y |-> 20, w |-> 40, h |-> 40]
IouBoxes == {NoBox, Box40, Box40At20}
\* Corner coordinates of the projection, relative to the matched image.
IouCoords == {-IouReach, -20, 0, 10, 20, 40, 40 + IouReach}
IouQuads ==
    {[x0 |-> a, y0 |-> b, x1 |-> c, y1 |-> d] :
        a \in IouCoords, b \in IouCoords, c \in IouCoords, d \in IouCoords}

InitIou ==
    /\ config = DefaultConfig
    /\ color_config = DefaultColorConfig
    /\ reference_data = RefA
    /\ reference_bank = <<RefA>>
    /\ observers = <<>>
    /\ pc = "pair"
    /\ args \in {[roi_box |-> b, pair |-> [gm |-> 30, fit |-> TRUE, quad |-> q]] :
                    b \in IouBoxes, q \in {r \in IouQuads : r.x0 < r.x1 /\ r.y0 < r.y1}}
    /\ cap = NoCap
    /\ frame = NoFrame
    /\ result = NoResult
    /\ metadata = None
    /\ frame_count = 0
    /\ obs_i = 0
    /\ invocations = 0
    /\ log = <<>>
    /\ ret = "none"

SpecIou == InitIou /\ [][NextMatch]_vars

\* Pixels of the rectangle a0..a1 x b0..b1 (corners included), unclipped.
PixelArea(a0, b0, a1, b1) ==
    IF a1 < a0 \/ b1 < b0 THEN 0 ELSE (a1 - a0 + 1) * (b1 - b0 + 1)

\* The projection in frame coordinates and its overlap with the region.
ProjX0 == args.pair.quad.x0 + args.roi_box.x
ProjY0 == args.pair.quad.y0 + args.roi_box.y
ProjX1 == args.pair.quad.x1 + args.roi_box.x
ProjY1 == args.pair.quad.y1 + args.roi_box.y
QuadPixels == PixelArea(ProjX0, ProjY0, ProjX1, ProjY1)
RegionPixels ==
    PixelArea(args.roi_box.x, args.roi_box.y,
              args.roi_box.x + args.roi_box.w, args.roi_box.y + args.roi_box.h)
OverlapPixels ==
    PixelArea(Max(ProjX0, args.roi_box.x), Max(ProjY0, args.roi_box.y),
              Min(ProjX1, args.roi_box.x + args.roi_box.w),
              Min(ProjY1, args.roi_box.y + args.roi_box.h))
\* IoU of the whole projection and the region is at least 0.3.
TrueIouOk ==
    10 * OverlapPixels >= 3 * (QuadPixels + RegionPixels - OverlapPixels)

\* C12: on a region, a fitted transform is accepted only if the IoU of the
\* whole projected quadrilateral and the region rectangle is at least 0.3,
\* however far the quadrilateral extends beyond the region; on the whole
\* frame no IoU test is applied.
C12_IouGuardsRegion ==
    Matched =>
        IF OnRegion
        THEN PairAccepted <=> TrueIouOk
        ELSE PairAccepted


(***************************************************************************)
(* SpecBest: OpenCVService.detect_in_frame on frames whose pairs differ in *)
(* good-match count, with one or two references in the bank.               *)
(***************************************************************************)
\* Pair observations: too few matches, two sizes of consistent match sets,
\* and a large match set projected onto a corner of the region.
BestPairs ==
    {[gm |-> 5, fit |-> TRUE, quad |-> QuadOn(Box40)],
     [gm |-> 20, fit |-> TRUE, quad |-> QuadOn(Box40)],
     [gm |-> 30, fit |-> TRUE, quad |-> QuadOn(Box40)],
     [gm |-> 30, fit |-> TRUE, quad |-> QuadCorner(Box40)]}

\* Candidates: one with too few keypoints; the others with a shape signature
\* near reference A's or far from it.
BestCands ==
    {[box |-> Box40, kp |-> 3, des |-> TRUE, hu |-> 0,
      m |-> [n \in RefNames |-> CHOOSE p \in BestPairs : TRUE]]}
    \cup
    [box : {Box40}, kp : {20}, des : {TRUE}, hu : {0, HuThreshold + 1},
     m : [RefNames -> BestPairs]]

\* Many good matches for which findHomography returns no transform.
PairUnfit == [gm |-> 40, fit |-> FALSE, quad |-> QuadOn(Box40)]

\* What a scan of the whole frame would find on a frame that has candidate
\* regions: a pair that is accepted for every reference.
WholeStrong ==
    [kp |-> 20, des |-> TRUE,
     m |-> [n \in RefNames |-> [gm |-> 30, fit |-> TRUE, quad |-> QuadOn(Box40)]]]

\* Frames without a candidate region carry the whole-frame observation;
\* frames with candidate regions carry none or one that would be a hit.
BestFrames ==
    [id : {1}, drawn : {<<>>}, malformed : {FALSE}, cands : {<<>>},
     whole : [kp : {20}, des : {TRUE}, m : [RefNames -> BestPairs \cup {PairUnfit}]],
     contours : {<<>>}]
    \cup [id : {1}, drawn : {<<>>}, malformed : {FALSE},
          cands : SeqUpTo(BestCands, MaxCands) \ {<<>>},
          whole : {NoWhole, WholeStrong}, contours : {<<>>}]

InitBest ==
    /\ config = DefaultConfig
    /\ color_config = DefaultColorConfig
    /\ reference_bank \in DetectBanks
    /\ reference_data = reference_bank[1]
    /\ observers = <<>>
    /\ pc = "input"
    /\ args = [mode |-> "none"]
    /\ cap = NoCap
    /\ frame \in BestFrames
    /\ result = NoResult
    /\ metadata = None
    /\ frame_count = 0
    /\ obs_i = 0
    /\ invocations = 0
    /\ log = <<>>
    /\ ret = "none"

\* detect_in_frame(frame) is called on the service.
DetectKeypoints ==
    /\ pc = "input"
    /\ result' = DetectInFrame(frame, reference_bank, config)
    /\ pc' = "detected"
    /\ UNCHANGED <<config, color_config, reference_data, reference_bank, observers, args,
                   cap, frame, metadata, frame_count, obs_i, invocations, log, ret>>

NextBest == DetectKeypoints

SpecBest == InitBest /\ [][NextBest]_vars

KeypointsDone == pc = "detected" /\ ~result.exc
WholeFramePath == frame.cands = <<>>
BankRefs == {reference_bank[i] : i \in DOMAIN reference_bank}

\* The pair (candidate ci, reference ref) passes validation when it is
\* matched: enough good matches, a fit, and on a region the overlap test.
\* Candidate 0 is the whole frame.
PassesValidation(ci, ref) ==
    IF ci = 0
    THEN /\ WholeFramePath
         /\ EnoughKeypoints(frame.whole.kp, frame.whole.des)
         /\ TryMatchAndDraw(ref, frame.whole.m[ref.name], <<>>, NoBox, config, 0).ok
    ELSE /\ EnoughKeypoints(frame.cands[ci].kp, frame.cands[ci].des)
         /\ TryMatchAndDraw(ref, frame.cands[ci].m[ref.name], <<>>,
                            frame.cands[ci].box, config, ci).ok
PairCount(ci, ref) ==
    IF ci = 0 THEN frame.whole.m[ref.name].gm ELSE frame.cands[ci].m[ref.name].gm
\* The pairs of the frame that the shape pre-filter lets through.
FramePairs ==
    {<<ci, ref>> \in ((IF WholeFramePath THEN {0} ELSE DOMAIN frame.cands) \X BankRefs) :
        ci = 0 \/ ~ShapeRejected(ref, frame.cands[ci].hu)}
ValidPairs == {p \in FramePairs : PassesValidation(p[1], p[2])}

\* C13: the keypoint pipeline returns the best validated result by
\* good-match count over all candidates and all references: the returned
\* transform is that of a pair that passes validation, and no pair that
\* passes validation has strictly more good matches, on the region path and
\* on the whole-frame path.
C13_BestValidatedPair ==
    KeypointsDone =>
        /\ result.has_detection <=> ValidPairs # {}
        /\ result.has_detection =>
               \E p \in ValidPairs :
                   /\ result.homography = [ref |-> p[2].name, cand |-> p[1]]
                   /\ \A q \in ValidPairs : PairCount(q[1], q[2]) <= PairCount(p[1], p[2])


\* Some pair of the frame passes validation when it is matched, whether or
\* not the shape pre-filter lets it through.
SomePairWouldPass ==
    \E ci \in DOMAIN frame.cands : \E ref \in BankRefs : PassesValidation(ci, ref)

\* C14: the shape pre-filter is never the sole basis of a frame's outcome: a
\* pair is skipped only when both signatures exist and their distance
\* exceeds 6.0, and no frame ends as "no detection" when descriptor matching
\* and pose validation accept one of its pairs.
C14_PrefilterNeverDecides ==
    (KeypointsDone /\ ~WholeFramePath) =>
        /\ ValidPairs # {} => result.has_detection
        /\ SomePairWouldPass => result.has_detection


ColorDone == pc = "detected" /\ args.mode = "color" /\ ~frame.malformed

\* C15: in colour-only mode the keypoint pipeline is not invoked and the
\* colour result is returned as it is: same frame and mask, hit iff the
\* total number of colour detections is positive, count equal to the total.
C15_ColorOnlyVerbatim ==
    ColorDone =>
        /\ ~result.exc
        /\ result.orb_calls = 0 /\ result.color_calls = 1
        /\ result.frame = ColorResult.frame_with_overlay
        /\ result.mask = ColorResult.mask
        /\ result.has_detection <=> ColorResult.total_detections > 0
        /\ result.count = ColorResult.total_detections

\* One colour detection on a frame on which the keypoint pipeline reports a
\* hit with 30 matches: the count returned is 1.
C15_Witness ==
    /\ ColorDone
    /\ KeypointResult.has_detection /\ KeypointResult.matches_found = 30
    /\ ColorResult.total_detections = 1
    /\ result.has_detection /\ result.count = 1 /\ result.orb_calls = 0


(***************************************************************************)
(* SpecColor: ColorDetectionService.detect_in_frame run once or twice on   *)
(* the same frame object, for contours on and just off each gate.          *)
(***************************************************************************)
MaxRuns == 2

Contour(color, area, w, h, hull) ==
    [color |-> color, area |-> area, w |-> w, h |-> h, hull |-> hull]

\* Contours of one colour: area just outside and on each end of [800,
\* 1000000]; width/height just outside and on each end of [0.5, 2.2];
\* solidity on 0.85 and just below it.
GateContours(color) ==
    {Contour(color, a, 1001, 1001, a) : a \in {799, 800, 1000000, 1000001}}
    \cup {Contour(color, 1000, w, 100, 1000) : w \in {49, 50, 220, 221}}
    \cup {Contour(color, 850, 100, 100, hull) : hull \in {1000, 1001}}

ColorContours == GateContours("verde") \cup GateContours("azul")

ColorFrames ==
    [id : {1}, drawn : {<<>>}, malformed : {FALSE}, cands : {<<>>}, whole : {NoWhole},
     contours : SeqUpTo(ColorContours, MaxContours)]

InitColor ==
    /\ config = DefaultConfig
    /\ color_config = DefaultColorConfig
    /\ reference_data = None
    /\ reference_bank = <<>>
    /\ observers = <<>>
    /\ pc = "input"
    /\ frame \in ColorFrames
    /\ args = [mode |-> "color", frame0 |-> frame]
    /\ cap = NoCap
    /\ result = NoResult
    /\ metadata = None
    /\ frame_count = 0
    /\ obs_i = 0
    /\ invocations = 0
    /\ log = <<>>
    /\ ret = "none"

\* The call returned r: the caller keeps the previous result in metadata and
\* holds the frame as the call left it.
ColorsDetected(r) ==
    /\ metadata' = result
    /\ result' = r
    /\ frame' = r.input_after

\* color_service.detect_in_frame(frame) is called on the frame held.
DetectColors ==
    /\ pc \in {"input", "detected"}
    /\ invocations < MaxRuns
    /\ invocations' = invocations + 1
    /\ ColorsDetected(ColorDetectInFrame(frame, color_config))
    /\ pc' = "detected"
    /\ UNCHANGED <<config, color_config, reference_data, reference_bank, observers, args,
                   cap, frame_count, obs_i, log, ret>>

NextColor == DetectColors

SpecColor == InitColor /\ [][NextColor]_vars

ColorsDone == pc = "detected" /\ invocations > 0
\* The three gates, on the contour at index k of the frame given to the
\* detector.
PassesGates(k) ==
    /\ color_config.min_area <= args.frame0.contours[k].area
    /\ args.frame0.contours[k].area <= color_config.max_area
    /\ color_config.aspect_min * args.frame0.contours[k].h <= 100 * args.frame0.contours[k].w
    /\ 100 * args.frame0.contours[k].w <= color_config.aspect_max * args.frame0.contours[k].h
    /\ 100 * args.frame0.contours[k].area >= color_config.solidity_min * args.frame0.contours[k].hull
InDetections(k) == \E n \in DOMAIN result.detections : result.detections[n].contour = k
InMask(k) == result.mask # None /\ k \in result.mask.contours

\* C16: a contour is accepted iff it passes the area, aspect-ratio and
\* solidity gates; a contour failing any gate is neither in the detection
\* list nor in the global mask.
C16_ThreeGates ==
    ColorsDone =>
        \A k \in DOMAIN args.frame0.contours :
            /\ InDetections(k) <=> PassesGates(k)
            /\ InMask(k) <=> PassesGates(k)

\* A contour on every gate's limit is accepted next to one with solidity
\* just below 0.85, which is left out of list and mask.
C16_Witness ==
    /\ ColorsDone /\ Len(args.frame0.contours) = 2
    /\ args.frame0.contours[1] = Contour("verde", 850, 100, 100, 1000)
    /\ args.frame0.contours[2] = Contour("verde", 850, 100, 100, 1001)
    /\ InDetections(1) /\ InMask(1)
    /\ ~InDetections(2) /\ ~InMask(2)


\* Indices of the contours of colour c that pass the gates.
AcceptedOf(c) ==
    {k \in DOMAIN args.frame0.contours :
        args.frame0.contours[k].color = c /\ PassesGates(k)}
ConfiguredColors == {color_config.hsv_ranges[j] : j \in DOMAIN color_config.hsv_ranges}
AcceptedAll == UNION {AcceptedOf(c) : c \in ConfiguredColors}
LabelsFound == {result.colors_found[n] : n \in DOMAIN result.colors_found}

\* C17: total_detections is the length of the detection list, which holds
\* each configured colour's accepted contours once; colors_found holds a
\* label iff a detection carries it, without repeats; the global mask is the
\* union of the accepted contours.
C17_ColorResultConsistent ==
    ColorsDone =>
        /\ result.total_detections = Len(result.detections)
        /\ Len(result.detections) = Cardinality(AcceptedAll)
        /\ \A c \in ConfiguredColors :
               Cardinality({n \in DOMAIN result.detections : result.detections[n].color = c})
                   = Cardinality(AcceptedOf(c))
        /\ \A n \in DOMAIN result.detections :
               result.detections[n].contour \in AcceptedOf(result.detections[n].color)
        /\ LabelsFound = {result.detections[n].color : n \in DOMAIN result.detections}
        /\ Cardinality(LabelsFound) = Len(result.colors_found)
        /\ IF AcceptedAll = {} THEN result.mask = None
           ELSE result.mask = [contours |-> AcceptedAll]

\* One accepted contour of each colour: two detections, both labels found,
\* both contours in the mask.
C17_Witness ==
    /\ ColorsDone
    /\ result.total_detections = 2
    /\ LabelsFound = {"verde", "azul"}
    /\ result.mask = [contours |-> {1, 2}]

FrameMissed(i) == \E e \in Of(i, "emit") : ~log[e].hit
StopSignalled(i) == \E k \in Of(i, "sink") : log[k].stop

\* C19: a frame without a hit is not an error: its result goes to every
\* sink with has_detection false, a stream goes on to the next read, and an
\* invocation in which no frame had a hit (and no detection call raised)
\* returns success.
C19_MissIsNotAnError ==
    invocations > 0 =>
        /\ \A i \in Reads :
               FrameMissed(i) =>
                   /\ \E d \in Of(i, "detect") : log[d].ok
                   /\ FrameClosed(i) => FrameDelivered(i)
                   /\ (IsStream /\ Of(i, "check") # {} /\ ~StopSignalled(i)
                         /\ NextRead(i) > Len(log))
                          => (pc = "read" /\ ret = "none") \/ At("eos") # {}
        /\ (pc = "notify" /\ ~result.has_detection) => ~metadata.has_detection
        /\ (Finished /\ Reads # {} /\ ~DetectionRaised
              /\ \A e \in At("emit") : ~log[e].hit)
               => ret = "True"

\* A stream of two frames, neither with a hit, delivered to two sinks and
\* ended with success.
C19_Witness ==
    /\ invocations > 0 /\ pc = "idle" /\ IsStream
    /\ Cardinality(Reads) = 2 /\ Len(observers) = 2
    /\ \A i \in Reads : FrameMissed(i) /\ FrameDelivered(i)
    /\ ret = "True"


(***************************************************************************)
(* SpecLive: the session under weak fairness of its steps: the program is  *)
(* sequential, so a step that can be taken is taken.  A stream delivers at *)
(* most MaxFrames frames before read_frame returns None.                   *)
(***************************************************************************)
SpecLive == Spec /\ WF_vars(Next)

\* _process_stream was entered: the source was opened a second time and is
\* a stream.
StreamStarted == invocations > 0 /\ IsStream /\ pc \in {"read", "detect", "notify"}
NothingReadAfterEos ==
    \A e \in At("eos") : \A r \in Reads : r < e

\* C20: every finite stream, whatever its number of frames (zero included)
\* and whatever its frames contain, is processed to termination with
\* success, and nothing is read after end-of-sequence.
C20_StreamEndsWithSuccess ==
    /\ StreamStarted ~> (Finished /\ ret = "True")
    /\ [](NothingReadAfterEos /\ (At("eos") # {} => Finished))


\* Every override of the current call is in force in the configuration cfg
\* of the keypoint service and ccfg of the colour service.
OverridesInForce(a, cfg, ccfg) ==
    /\ \A k \in DOMAIN a.custom_orb_params \cap DOMAIN cfg :
           cfg[k] = a.custom_orb_params[k]
    /\ \A k \in DOMAIN a.custom_color_params \cap DOMAIN ccfg :
           ccfg[k] = a.custom_color_params[k]

\* C21: configuration is written only before processing begins: a step
\* changes a configuration only as the first step of an invocation, before
\* the reference is loaded, a source opened or a frame read; from then to the
\* end of the invocation every override is in force and nothing changes.
C21_ConfigWrittenBeforeProcessing ==
    [][/\ (config' # config \/ color_config' # color_config)
            => (pc = "apply" /\ log = <<>> /\ cap.opens = 0 /\ frame = NoFrame)
       /\ (invocations' > 0 /\ pc' # "apply")
            => OverridesInForce(args', config', color_config')]_vars

\* An invocation that ran to the end of a stream with both overrides.
C21_Witness ==
    /\ invocations > 0 /\ pc = "idle" /\ ret = "True"
    /\ args.custom_orb_params = [min_matches |-> CliMinMatches]
    /\ args.custom_color_params = [min_area |-> 1200]
    /\ config.min_matches = CliMinMatches /\ color_config.min_area = 1200
    /\ At("emit") # {}


(***************************************************************************)
(* SpecFrames: the two detection services called on a sequence of frames,  *)
(* in any order and with repetitions, on one loaded bank.                  *)
(***************************************************************************)
MaxCalls == 3

\* Region hit: one candidate whose pair is accepted.
FrameRegionHit ==
    [id |-> 4, drawn |-> <<>>, malformed |-> FALSE,
     cands |-> <<[box |-> Box40, kp |-> 20, des |-> TRUE, hu |-> 0,
                  m |-> [n \in RefNames |-> PairStrong]]>>,
     whole |-> NoWhole,
     contours |-> <<>>]

FramesInOrder == SessionFrames \cup {FrameRegionHit}

InitFrames ==
    /\ config = DefaultConfig
    /\ color_config = DefaultColorConfig
    /\ reference_bank \in DetectBanks
    /\ reference_data = reference_bank[1]
    /\ observers = <<>>
    /\ pc = "input"
    /\ args = [mode |-> "none", bank0 |-> reference_bank]
    /\ cap = NoCap
    /\ frame = NoFrame
    /\ result = NoResult
    /\ metadata = None
    /\ frame_count = 0
    /\ obs_i = 0
    /\ invocations = 0
    /\ log = <<>>
    /\ ret = "none"

\* A detection call on frame f returned or raised r.
CallReturned(kind, f, r) ==
    /\ result' = r
    /\ frame' = IF r.exc THEN f ELSE r.input_after
    /\ log' = Append(log, [kind |-> kind, frame |-> f, result |-> r])
    /\ frame_count' = frame_count + 1

\* opencv_service.detect_in_frame(f).
KeypointCall ==
    /\ frame_count < MaxCalls
    /\ \E f \in FramesInOrder :
          CallReturned("orb", f, DetectInFrame(f, reference_bank, config))
    /\ UNCHANGED <<config, color_config, reference_data, reference_bank, observers, pc,
                   args, cap, metadata, obs_i, invocations, ret>>

\* color_service.detect_in_frame(f).
ColorCall ==
    /\ frame_count < MaxCalls
    /\ \E f \in FramesInOrder :
          CallReturned("color", f, ColorDetectInFrame(f, color_config))
    /\ UNCHANGED <<config, color_config, reference_data, reference_bank, observers, pc,
                   args, cap, metadata, obs_i, invocations, ret>>

NextFrames == KeypointCall \/ ColorCall

SpecFrames == InitFrames /\ [][NextFrames]_vars

ScannedWhole(r) ==
    \/ \E k \in DOMAIN r.frame_with_overlay.drawn :
           r.frame_with_overlay.drawn[k].op = "few_keypoints"
    \/ r.has_detection /\ r.homography.cand = 0
    \/ ~r.has_detection /\ r.matches_found > 0

\* No candidate region of the frame has a pair that is let through by the
\* pre-filter and accepted.
AllCandidatesDiscarded ==
    /\ frame.cands # <<>>
    /\ \A p \in FramePairs : ~PassesValidation(p[1], p[2])

\* C23: the whole frame is scanned exactly when the region proposer returned
\* no candidate; with at least one candidate a hit is always on a region,
\* and when every candidate is discarded the frame ends with no detection
\* even though a scan of the whole frame would have matched.
C23_WholeFrameIffNoCandidate ==
    KeypointsDone =>
        /\ ScannedWhole(result) <=> frame.cands = <<>>
        /\ (frame.cands # <<>> /\ result.has_detection) => result.homography.cand >= 1
        /\ AllCandidatesDiscarded =>
               (~result.has_detection /\ result.homography = None /\ result.mask = None)

\* A frame whose only candidate has too few keypoints, where the whole frame
\* would match every reference of a two-reference bank: no detection.
C23_Witness ==
    /\ KeypointsDone
    /\ Len(frame.cands) = 1 /\ frame.cands[1].kp < MinKeypoints
    /\ frame.whole = WholeStrong
    /\ Len(reference_bank) = 2
    /\ ~result.has_detection /\ ~ScannedWhole(result)


(***************************************************************************)
(* SpecParams: NopalDetector._apply_custom_params on an application        *)
(* configuration with its three sections, applied up to MaxApplications    *)
(* times with supplied, empty and missing override dictionaries.           *)
(***************************************************************************)
MaxApplications == 2

\* settings.py 24-42 and 55-78 (ratios and alphas in hundredths); the colour
\* service's own configuration (color_detection.py 31-47) has fill_alpha
\* besides.
OrbSection == [n_features |-> 2000, min_matches |-> 18, ratio_threshold |-> 75]
DrawingSection == [fill_alpha |-> 25, border_thickness |-> 3]
ColorSection == [min_area |-> 800, max_area |-> 1000000, draw_labels |-> TRUE]
ColorServiceConfig ==
    [hsv_ranges |-> <<"verde", "azul">>, min_area |-> 800, max_area |-> 1000000,
     aspect_min |-> 50, aspect_max |-> 220, solidity_min |-> 85, fill_alpha |-> 25]

\* Override dictionaries: None, empty, keys that name fields, and keys that
\* name no field of the section.
OrbParams ==
    {None, <<>>, [min_matches |-> 25, ratio_threshold |-> 80],
     [min_matches |-> 4, bogus |-> 1]}
DrawingParams == {None, [fill_alpha |-> 40], [min_matches |-> 9]}
ColorParams ==
    {None, <<>>, [min_area |-> 1200, draw_labels |-> FALSE], [max_area |-> 5000, fill_alpha |-> 90]}

\* "if custom_orb_params:" is false for None and for an empty dictionary.
Supplied(params) == "none" \notin DOMAIN params /\ DOMAIN params # {}

\* One section of _apply_custom_params (detector.py 110-114, 116-120, 122-125).
ApplySection(section, params) ==
    IF Supplied(params) THEN ApplyParams(section, params) ELSE section

InitParams ==
    /\ config = [orb |-> OrbSection, drawing |-> DrawingSection,
                 color_detection |-> ColorSection]
    /\ color_config = ColorServiceConfig
    /\ reference_data = None
    /\ reference_bank = <<>>
    /\ observers = <<>>
    /\ pc = "input"
    /\ args = [mode |-> "none"]
    /\ cap = NoCap
    /\ frame = NoFrame
    /\ result = NoResult
    /\ metadata = None
    /\ frame_count = 0
    /\ obs_i = 0
    /\ invocations = 0
    /\ log = <<>>
    /\ ret = "none"

\* _apply_custom_params(o, d, c); metadata keeps the configuration and the
\* colour service's configuration as they were before the call.
ApplyOverrides ==
    /\ invocations < MaxApplications
    /\ invocations' = invocations + 1
    /\ \E o \in OrbParams, d \in DrawingParams, c \in ColorParams :
          /\ args' = [mode |-> "none", custom_orb_params |-> o,
                      custom_drawing_params |-> d, custom_color_params |-> c]
          /\ config' = [orb |-> ApplySection(config.orb, o),
                        drawing |-> ApplySection(config.drawing, d),
                        color_detection |-> ApplySection(config.color_detection, c)]
          /\ color_config' = IF Supplied(c) THEN ApplyColorParams(color_config, c)
                             ELSE color_config
    /\ metadata' = [config |-> config, color_config |-> color_config]
    /\ pc' = "applied"
    /\ UNCHANGED <<reference_data, reference_bank, observers, cap, frame, result,
                   frame_count, obs_i, log, ret>>

NextParams == ApplyOverrides

SpecParams == InitParams /\ [][NextParams]_vars

\* Section after follows from section before and the override dictionary:
\* same fields, a field named by a key holds the key's value, any other
\* field is unchanged.
SectionOverridden(before, after, params) ==
    /\ DOMAIN after = DOMAIN before
    /\ \A k \in DOMAIN before \cap DOMAIN params : after[k] = params[k]
    /\ \A k \in DOMAIN before \ DOMAIN params : after[k] = before[k]

C25_CountOfReturnedReference ==
    (KeypointsDone /\ WholeFramePath /\ result.has_detection) =>
        \E ref \in BankRefs :
            /\ result.homography.ref = ref.name
            /\ result.matches_found = frame.whole.m[ref.name].gm


(***************************************************************************)
(* SpecSinks: successive detect_from_source invocations on one detector    *)
(* object, in colour mode, where the display may be unavailable so that    *)
(* the display observer's on_result raises.                                *)
(***************************************************************************)
MaxSuccessive == 2

\* Calls in colour mode on the video or the image; headless: cv2.imshow
\* raises during this invocation.
SinkArgs ==
    [mode : {"color"}, reference_path : {"A"}, source_path : {"vid", "img"},
     output_path : {NoPath, "out.mp4"}, mask_path : {NoPath},
     show_display : BOOLEAN, custom_orb_params : {<<>>}, custom_color_params : {<<>>},
     headless : BOOLEAN]

\* One frame with a colour hit and one without.
SinkFrames == {FrameColor, FrameHit}

CallAgain(a) ==
    /\ invocations < MaxSuccessive
    /\ Enter(a)

\* notify_result's next observer; a display observer raises when there is no
\* display.
NotifyOrRaise(key_q) ==
    /\ pc = "notify"
    /\ obs_i <= Len(observers)
    /\ OnResult(key_q, IF obs_i <= Len(observers)
                       THEN observers[obs_i].kind = "display" /\ args.headless
                       ELSE FALSE)

NextSinks ==
    \/ \E a \in SinkArgs : CallAgain(a)
    \/ ApplyCustomParams
    \/ LoadReference
    \/ SetupOutputObservers
    \/ ProcessSource
    \/ \E f \in SinkFrames : ReadFrame(f)
    \/ EndOfStream
    \/ \E f \in SinkFrames : TakeImage(f)
    \/ DetectFrame
    \/ \E key_q \in BOOLEAN : NotifyOrRaise(key_q)
    \/ CheckExit
    \/ ImageDone
    \/ Cleanup

SpecSinks == Init /\ [][NextSinks]_vars

\* C26: across successive invocations on one detector object, each frame's
\* result is delivered exactly once to each sink configured for the current
\* invocation and never to a sink registered by an earlier invocation: while
\* frames are processed the registered sinks are those of the current
\* invocation.
C26_SinksOfCurrentInvocationOnly ==
    /\ \A i \in Reads :
           (FrameClosed(i) /\ Of(i, "emit") # {}) =>
               \A o \in DOMAIN observers :
                   Cardinality(SinkOf(i, o)) =
                       (IF observers[o].inv = invocations THEN 1 ELSE 0)
    /\ pc \in {"open", "read", "single", "detect", "notify"} =>
           observers = NewObservers(args, invocations)

\* A sink's on_result raised in this invocation.
SinkRaised == \E k \in At("sink") : log[k].raised

\* C27: a failing sink is isolated: when on_result of one sink raises, the
\* sinks registered after it still receive that frame's result, in
\* registration order, the stream goes on to the stop poll and the next
\* read, and the invocation's outcome is what it is without the failure
\* (success unless a detection call raised).
C27_FailingSinkIsolated ==
    /\ \A k \in At("sink") :
           /\ log[k].i = 1 => log[k - 1].ev = "emit"
           /\ log[k].i > 1 =>
                  (log[k - 1].ev = "sink" /\ log[k - 1].i = log[k].i - 1)
    /\ \A i \in Reads : \A k \in Of(i, "sink") :
           (log[k].raised /\ FrameClosed(i)) =>
               /\ \A o \in DOMAIN observers : Cardinality(SinkOf(i, o)) = 1
               /\ IsStream => Cardinality(Of(i, "check")) = 1
               /\ (IsStream /\ ~ShouldBreak(metadata)) =>
                      (NextRead(i) <= Len(log) \/ At("eos") # {})
    /\ (Finished /\ SinkRaised) => (ret = "True" <=> ~DetectionRaised)

\* A stream of two frames with a failing display observer registered first
\* and a video writer second: the writer got both frames and the invocation
\* succeeded.
C27_Witness ==
    /\ invocations > 0 /\ pc = "idle" /\ IsStream /\ ret = "True"
    /\ Len(observers) = 2 /\ observers[1].kind = "display"
    /\ Cardinality(Reads) = 2
    /\ \A i \in Reads :
           /\ \E k \in SinkOf(i, 1) : log[k].raised
           /\ \E k \in SinkOf(i, 2) : ~log[k].raised
    /\ At("eos") # {}


\* The invocation has returned.
InvocationReturned == invocations > 0 /\ pc = "idle"

\* C28: every invocation, whether it succeeded or failed at the reference
\* load, at the sink setup, at the opening of the source or in a frame, ends
\* with the cleanup pass run once, last, over every registered sink (each
\* sink that has a cleanup operation had it invoked) and with every capture
\* opened during the invocation released: none stays open.
C28_CleanupAndReleaseAlways ==
    /\ InvocationReturned =>
           /\ ret \in {"True", "False"}
           /\ At("cleanup") = {Len(log)}
           /\ \A o \in DOMAIN observers :
                  HasCleanup(observers[o].kind) => o \in log[Len(log)].sinks
           /\ cap.captures = 0
           /\ IsStream => cap.released = cap.opens
    /\ (invocations > 0 /\ pc # "idle") => At("cleanup") = {}
    /\ cap.captures <= 1

\* A stream whose detection call raised on a frame: the invocation failed,
\* the display and the video writer were cleaned up, and both captures (of
\* the sink setup and of the processing) were released.
C28_Witness ==
    /\ InvocationReturned /\ IsStream /\ ret = "False" /\ DetectionRaised
    /\ Len(observers) = 2
    /\ observers[1].kind = "display" /\ observers[2].kind = "save_video"
    /\ log[Len(log)].ev = "cleanup" /\ log[Len(log)].sinks = {1, 2}
    /\ cap.opens = 2 /\ cap.released = 2 /\ cap.captures = 0


\* The mode of the current call is none of orb, color, auto.
InvalidMode == invocations > 0 /\ args.mode \notin {"orb", "color", "auto"}

\* What the same call made with mode orb does with the frame held: the
\* keypoint pipeline on the bank holding the reference of the call.
AsOrbMode ==
    OrbOnly(frame, <<LoadSingleReference(args.reference_path).ref>>, config)

\* C29: with a mode outside {orb, color, auto} the invocation behaves as in
\* orb mode: the reference of the call is loaded, a failed load ends the
\* invocation, each frame's result is that of the keypoint pipeline on that
\* reference, and the invocation fails only where the orb call fails.
C29_InvalidModeAsOrb ==
    InvalidMode =>
        /\ PastLoad => At("load") # {}
        /\ (PastLoad /\ LoadSingleReference(args.reference_path).exc) =>
               (Finished /\ ret = "False" /\ At("read") = {})
        /\ (pc = "notify" /\ ~LoadSingleReference(args.reference_path).exc) =>
               result = AsOrbMode
        /\ (Finished /\ DetectionRaised /\ ~LoadSingleReference(args.reference_path).exc) =>
               AsOrbMode.exc


\* C30: in every mode the tuple the orchestrator returns has its hit flag
\* set exactly when its mask is present, and the keypoint result for the
\* frame has its hit flag set exactly when it carries a transform and
\* exactly when it carries a mask.
C30_HitIffMaskAndTransform ==
    /\ (pc = "detected" /\ ~result.exc) =>
           (result.has_detection <=> result.mask # None)
    /\ (pc = "detected" /\ ~KeypointResult.exc) =>
           /\ KeypointResult.has_detection <=> KeypointResult.homography # None
           /\ KeypointResult.has_detection <=> KeypointResult.mask # None

\* AUTO on a frame with candidate regions where the keypoint pipeline has no
\* transform and no mask and the colour pipeline finds an object: the tuple
\* is a hit with the colour mask.
C30_Witness ==
    /\ pc = "detected" /\ args.mode = "auto" /\ ~result.exc
    /\ frame.cands # <<>>
    /\ ~KeypointResult.has_detection /\ KeypointResult.homography = None
    /\ KeypointResult.mask = None
    /\ result.has_detection /\ result.mask = ColorResult.mask /\ result.mask # None

====
